---- MODULE Spec2Model ----
(***************************************************************************)
(* A model of the group chat orchestrator: the three-round loop of         *)
(* run.py and the text functions of text_processing.py and prompts.py.     *)
(*                                                                         *)
(* A Python str is a sequence of characters, each character a one-element  *)
(* TLA+ string ("NL" and "TAB" name the newline and the tab, "CTRL" any    *)
(* ASCII control character that is not whitespace, "C1" any character of   *)
(* U+0080..U+009F that is not whitespace).  A call that may raise returns  *)
(* Ok(value) or Raise(exception).                                          *)
(***************************************************************************)
EXTENDS Integers, Sequences, FiniteSets, TLC

Ok(val) == [ok |-> TRUE, v |-> val, exc |-> "none"]

Raise(e) == [ok |-> FALSE, v |-> <<>>, exc |-> e]

\* ------------------------------------------------------------------ text

BS == "\\"

Whitespace == {" ", "NL", "TAB"}

UpperCase == <<"A", "B", "C", "D", "E", "F", "G", "H", "I", "J", "K", "L", "M",
               "N", "O", "P", "Q", "R", "S", "T", "U", "V", "W", "X", "Y", "Z">>

LowerCase == <<"a", "b", "c", "d", "e", "f", "g", "h", "i", "j", "k", "l", "m",
               "n", "o", "p", "q", "r", "s", "t", "u", "v", "w", "x", "y", "z">>

Range(f) == {f[i] : i \in DOMAIN f}

AsciiWord == Range(UpperCase) \cup Range(LowerCase) \cup
             {"_", "0", "1", "2", "3", "4", "5", "6", "7", "8", "9"}

\* Characters of U+00A0..U+00FF that \w matches: the ordinal indicators
\* (U+00AA, U+00BA) and the letters A-circumflex (U+00C2), A-tilde (U+00C3)
\* and e-acute (U+00E9).
Latin1Word == {"ord_a", "ord_o", "A_circ", "A_tilde", "e_acute"}

WordChars == AsciiWord \cup Latin1Word

KeptPunct == {".", ",", "!", "?", "-"}

\* The hex digits among the characters of the model.
HexDigits == {"a", "b", "c", "d", "e", "f", "1"}

\* text.encode('utf-8') followed by the decode of each byte as Latin-1, for one
\* character outside the escape sequences: ASCII is unchanged, a character of
\* U+0080..U+00BF becomes A-circumflex and itself, one of U+00C0..U+00FF
\* A-tilde and the character 0x40 below it.  "L1P" is any character of
\* U+00A0..U+00BF that \w and \s do not match.
Utf8AsLatin1(c) ==
    CASE c = "e_acute" -> <<"A_tilde", "L1P">>
      [] c = "ord_a" -> <<"A_circ", "ord_a">>
      [] c = "ord_o" -> <<"A_circ", "ord_o">>
      [] c = "L1P" -> <<"A_circ", "L1P">>
      [] c = "C1" -> <<"A_circ", "C1">>
      [] c = "A_circ" -> <<"A_tilde", "C1">>
      [] c = "A_tilde" -> <<"A_tilde", "C1">>
      [] OTHER -> <<c>>

\* The character \xHL names, for the hex digits a, b and 1.
HexChar(h, l) ==
    CASE h = "a" /\ l = "a" -> "ord_a"
      [] h = "b" /\ l = "a" -> "ord_o"
      [] h \in {"a", "b"} /\ l \in {"a", "b", "1"} /\ l # "a" -> "L1P"
      [] h = "1" /\ l \in {"a", "b", "1"} -> "CTRL"

\* s[n:]
DropFirst(s, n) == SubSeq(s, n + 1, Len(s))

Cat(prefix, res) == IF res.ok THEN Ok(prefix \o res.v) ELSE res

\* The rest of a computation, run on the value of a step that did not raise.
Bind(res, Rest(_)) == IF res.ok THEN Rest(res.v) ELSE res

Min(S) == CHOOSE x \in S : \A y \in S : x <= y

Max(S) == CHOOSE x \in S : \A y \in S : x >= y

\* The characters the decoder does not copy as they are.
Decoded == {BS, "e_acute", "ord_a", "ord_o", "L1P", "C1", "A_circ", "A_tilde"}

\* bytes.decode('unicode_escape') of the UTF-8 bytes of s: the characters
\* before the first backslash or non-ASCII character are copied, that one
\* is decoded, and the rest follows.
RECURSIVE UnicodeEscape(_)
UnicodeEscape(s) ==
    LET special == {j \in 1..Len(s) : s[j] \in Decoded} IN
    IF special = {} THEN Ok(s)
    ELSE
    LET i == Min(special)
        before == SubSeq(s, 1, i - 1)
        Rest(n) == UnicodeEscape(DropFirst(s, n))
    IN
    IF s[i] # BS THEN Cat(before \o Utf8AsLatin1(s[i]), Rest(i))
    ELSE IF i = Len(s) THEN Raise("UnicodeDecodeError")
    ELSE LET c == s[i + 1] IN
        CASE c = "n" -> Cat(before \o <<"NL">>, Rest(i + 1))
          [] c = "t" -> Cat(before \o <<"TAB">>, Rest(i + 1))
          [] c = BS -> Cat(before \o <<BS>>, Rest(i + 1))
          [] c \in {"a", "b", "f", "v"} -> Cat(before \o <<"CTRL">>, Rest(i + 1))
          [] c = "NL" -> Cat(before, Rest(i + 1))
          [] c = "1" ->
                \* an octal escape takes up to three octal digits
                IF i + 2 <= Len(s) /\ s[i + 2] = "1"
                THEN IF i + 3 <= Len(s) /\ s[i + 3] = "1"
                     THEN Cat(before \o <<"I">>, Rest(i + 3))
                     ELSE Cat(before \o <<"TAB">>, Rest(i + 2))
                ELSE Cat(before \o <<"CTRL">>, Rest(i + 1))
          [] c = "x" ->
                IF i + 3 <= Len(s) /\ s[i + 2] \in HexDigits /\ s[i + 3] \in HexDigits
                THEN Cat(before \o <<HexChar(s[i + 2], s[i + 3])>>, Rest(i + 3))
                ELSE Raise("UnicodeDecodeError")
          [] c \in {"u", "U", "N"} -> Raise("UnicodeDecodeError")
          \* any other escape but the octal ones, of which the model has \1
          \* alone, is left in place, backslash included
          [] c \notin {"0", "2", "3", "4", "5", "6", "7", "r", "'", "\""} ->
                Cat(before \o <<BS>>, Rest(i))

Indices(s) == [i \in 1..Len(s) |-> i]

\* re.sub(r'\s+', ' ', text): of each run of whitespace the first character
\* stays, as a space.
CollapseWhitespace(s) ==
    LET FirstOfRun(i) == ~(s[i] \in Whitespace /\ i > 1 /\ s[i - 1] \in Whitespace)
        kept == SelectSeq(Indices(s), FirstOfRun)
    IN [j \in 1..Len(kept) |-> IF s[kept[j]] \in Whitespace THEN " " ELSE s[kept[j]]]

\* re.sub(r'[^\w\s.,!?-]', '', text)
RemoveSpecial(s) ==
    LET Kept(c) == c \in WordChars \cup Whitespace \cup KeptPunct IN SelectSeq(s, Kept)

\* str.strip()
Strip(s) ==
    LET inner == {i \in 1..Len(s) : s[i] \notin Whitespace} IN
    IF inner = {} THEN <<>> ELSE SubSeq(s, Min(inner), Max(inner))

\* ---------------------------------------------------------- Python values

\* A Python value is a node [t, s, n, l]: t its type, s the characters of a
\* "str", n the number of an "int", l the elements of a "list" or the entries
\* of a "dict" (an "entry" holds its key in s and its value in l).  A "json"
\* node is a str whose text is the JSON document of the value l[1]: only an
\* agent's or the store's raw result is one, and a "str" handed to json.loads
\* is a text that is no JSON document.
Node(type, chars, num, elems) == [t |-> type, s |-> chars, n |-> num, l |-> elems]

PyStr(s) == Node("str", s, 0, <<>>)

PyNone == Node("none", <<>>, 0, <<>>)

PyInt(n) == Node("int", <<>>, n, <<>>)

PyList(elems) == Node("list", <<>>, 0, elems)

Entry(k, val) == Node("entry", <<k>>, 0, <<val>>)

PyDict(entries) == Node("dict", <<>>, 0, entries)

PyJson(val) == Node("json", <<>>, 0, <<val>>)

EmptyDict == PyDict(<<>>)

EmptyList == PyList(<<>>)

\* [PyStr(s) for s in ss]
StrList(ss) == PyList([i \in 1..Len(ss) |-> PyStr(ss[i])])

\* bool(x)
Truthy(x) ==
    CASE x.t = "none" -> FALSE
      [] x.t = "int" -> x.n # 0
      [] x.t = "str" -> x.s # <<>>
      [] x.t = "json" -> TRUE
      [] OTHER -> x.l # <<>>

\* k in x, for a dict x
HasKey(x, k) == \E i \in 1..Len(x.l) : x.l[i].s = <<k>>

\* x.get(k, default), for a dict x
Get(x, k, default) ==
    IF HasKey(x, k)
    THEN x.l[CHOOSE i \in 1..Len(x.l) : x.l[i].s = <<k>>].l[1]
    ELSE default

\* clean_text of a str that is not empty
CleanStr(s) ==
    Bind(UnicodeEscape(s),
         LAMBDA decoded : Ok(Strip(RemoveSpecial(CollapseWhitespace(decoded)))))

CleanText(text) ==
    IF ~Truthy(text) THEN Ok(<<>>)
    ELSE IF text.t # "str" THEN Raise("AttributeError")
    ELSE CleanStr(text.s)

\* [clean_text(x) for x in xs], xs a sequence of Python values
RECURSIVE CleanAll(_)
CleanAll(xs) ==
    IF xs = <<>> THEN Ok(<<>>)
    ELSE Bind(CleanText(Head(xs)), LAMBDA h : Cat(<<h>>, CleanAll(Tail(xs))))

\* [p for p in ps if p.strip()]
RECURSIVE DropBlank(_)
DropBlank(ps) ==
    IF ps = <<>> THEN <<>>
    ELSE IF Strip(Head(ps)) # <<>> THEN <<Head(ps)>> \o DropBlank(Tail(ps))
         ELSE DropBlank(Tail(ps))

\* ------------------------------------------------------------ str methods

\* str.startswith(prefix)
StartsWith(s, prefix) == Len(s) >= Len(prefix) /\ SubSeq(s, 1, Len(prefix)) = prefix

LowerChar(c) ==
    CASE c \in Range(UpperCase) -> LowerCase[CHOOSE i \in 1..Len(UpperCase) : UpperCase[i] = c]
      [] c = "A_circ" -> "a_circ"
      [] c = "A_tilde" -> "a_tilde"
      [] OTHER -> c

\* str.lower()
Lower(s) == [i \in 1..Len(s) |-> LowerChar(s[i])]

\* sub in s
IsSubstring(sub, s) ==
    \E i \in 0..(Len(s) - Len(sub)) : SubSeq(s, i + 1, i + Len(sub)) = sub

\* s.split(sep, 1)[1], for a sep that occurs in s
AfterFirst(sep, s) ==
    LET i == CHOOSE j \in 0..(Len(s) - Len(sep)) :
                 /\ SubSeq(s, j + 1, j + Len(sep)) = sep
                 /\ \A k \in 0..(j - 1) : SubSeq(s, k + 1, k + Len(sep)) # sep
    IN DropFirst(s, i + Len(sep))

\* str.lstrip(chars)
LStripChars(s, chars) ==
    LET rest == {i \in 1..Len(s) : s[i] \notin chars} IN
    IF rest = {} THEN <<>> ELSE DropFirst(s, Min(rest) - 1)

\* str.split(): the maximal runs of characters that are not whitespace
RECURSIVE Split(_)
Split(s) ==
    LET t == LStripChars(s, Whitespace)
        gaps == {i \in 1..Len(t) : t[i] \in Whitespace}
    IN
    IF t = <<>> THEN <<>>
    ELSE IF gaps = {} THEN <<t>>
    ELSE <<SubSeq(t, 1, Min(gaps) - 1)>> \o Split(DropFirst(t, Min(gaps)))

\* str.isdigit() of one character
IsDigit(c) == c \in {"0", "1", "2", "3", "4", "5", "6", "7", "8", "9"}

\* ------------------------------------------------- process_agent_response

SectionPrefix == <<"S", "e", "c", "t", "i", "o", "n", ":">>

FindingsForPrefix == <<"F", "i", "n", "d", "i", "n", "g", "s", " ", "f", "o", "r", ":">>

KeyFindings == <<"K", "e", "y", " ", "F", "i", "n", "d", "i", "n", "g", "s">>

\* The markers that are stripped from a heading, in the order of the code.
StrippedPrefixes == <<SectionPrefix, FindingsForPrefix, <<"#", "#", "#">>, <<"#">>, <<"*", "*">>>>

HeadingPrefixes ==
    StrippedPrefixes \o
    << <<"1", ".">>, <<"2", ".">>, <<"3", ".">>, <<"4", ".">>, <<"5", ".">>,
       <<"6", ".">>, <<"7", ".">>, <<"8", ".">>, <<"9", ".">>, <<"1", "0", ".">> >>

IsHeading(line) == \E i \in 1..Len(HeadingPrefixes) : StartsWith(line, HeadingPrefixes[i])

\* for prefix in [...]: if current_section.startswith(prefix): strip it
RECURSIVE StripPrefixes(_, _)
StripPrefixes(section, i) ==
    IF i > Len(StrippedPrefixes) THEN section
    ELSE IF StartsWith(section, StrippedPrefixes[i])
         THEN StripPrefixes(Strip(DropFirst(section, Len(StrippedPrefixes[i]))), i + 1)
         ELSE StripPrefixes(section, i + 1)

FindingDict(section, points) ==
    PyDict(<<Entry("section", PyStr(section)), Entry("points", StrList(points))>>)

\* A section is emitted with or without points.
FlushAny(section, points, out) ==
    IF section # <<>> THEN Append(out, FindingDict(section, points)) ELSE out

\* if current_section and current_points: structured_findings.append(...)
Flush(section, points, out) ==
    IF section # <<>> /\ points # <<>> THEN Append(out, FindingDict(section, points)) ELSE out

\* Lines 248-249: a leading "N. " is dropped from a heading that starts with
\* a digit; current_section[0] of an empty heading is an IndexError.
Heading(stripped) ==
    IF stripped = <<>> THEN Raise("IndexError")
    ELSE IF IsDigit(stripped[1]) /\ IsSubstring(<<".", " ">>, stripped)
    THEN Ok(AfterFirst(<<".", " ">>, stripped))
    ELSE Ok(stripped)

\* line.lstrip('-* ').strip()
BulletPoint(line) == Strip(LStripChars(line, {"-", "*", " "}))

\* The line scanner over findings given as a list of str, from line i on;
\* no section open is the empty section (None and "" are both false).
RECURSIVE ScanLines(_, _, _, _, _)
RECURSIVE ScanLine(_, _, _, _, _, _)
ScanLines(lines, i, section, points, out) ==
    IF i > Len(lines) THEN Ok(Flush(section, points, out))
    ELSE ScanLine(lines, i, section, points, out, Strip(lines[i].s))

\* Lines 231-259, for the stripped line i.
ScanLine(lines, i, section, points, out, line) ==
    IF line = <<>> THEN ScanLines(lines, i + 1, section, points, out)
    ELSE IF IsHeading(line)
    THEN Bind(Heading(StripPrefixes(line, 1)),
              LAMBDA heading :
                  ScanLines(lines, i + 1, heading, <<>>, Flush(section, points, out)))
    ELSE IF line[1] \in {"-", "*"}
    THEN ScanLines(lines, i + 1, section,
                   IF BulletPoint(line) # <<>> /\ section # <<>>
                   THEN Append(points, BulletPoint(line)) ELSE points,
                   out)
    ELSE IF section # <<>>
    THEN ScanLines(lines, i + 1, section, Append(points, line), out)
    ELSE ScanLines(lines, i + 1, line, <<>>, out)

\* question.lower() in f.lower() or any(word in f.lower() for word in ...)
Overlaps(question, f) ==
    \/ IsSubstring(Lower(question), Lower(f))
    \/ \E w \in Range(Split(Lower(question))) : IsSubstring(w, Lower(f))

\* [f for f in findings if the question overlaps f]
RelevantPoints(question, lines) ==
    LET Relevant(f) == Overlaps(question, f.s)
        kept == SelectSeq(lines, Relevant)
    IN [i \in 1..Len(kept) |-> kept[i].s]

\* Fallback A: one section "Findings for: <question>" per question with
\* relevant points; the questions are the elements of a list of str.
RECURSIVE GroupByQuestion(_, _)
GroupByQuestion(questions, lines) ==
    IF questions = <<>> THEN <<>>
    ELSE (IF RelevantPoints(Head(questions).s, lines) # <<>>
          THEN <<FindingDict(FindingsForPrefix \o <<" ">> \o Head(questions).s,
                             RelevantPoints(Head(questions).s, lines))>>
          ELSE <<>>) \o GroupByQuestion(Tail(questions), lines)

\* The elements a for loop over x visits, or a TypeError.
Iterate(x) ==
    CASE x.t = "list" -> Ok(x.l)
      [] x.t = "str" -> Ok([i \in 1..Len(x.s) |-> PyStr(<<x.s[i]>>)])
      [] x.t = "dict" -> Ok([i \in 1..Len(x.l) |-> PyStr(x.l[i].s)])
      [] OTHER -> Raise("TypeError")

AllOfType(elems, type) == \A i \in 1..Len(elems) : elems[i].t = type

\* Fallback B: all the lines as the points of one section "Key Findings".
KeyFindingsOf(lines) ==
    <<PyDict(<<Entry("section", PyStr(KeyFindings)), Entry("points", PyList(lines))>>)>>

OrElse(xs, ys) == IF xs # <<>> THEN xs ELSE ys

\* Lines 267-283: the fallbacks, when the scanner produced no section.
Fallbacks(lines, questions_to_answer) ==
    IF ~Truthy(questions_to_answer) THEN Ok(KeyFindingsOf(lines))
    ELSE Bind(Iterate(questions_to_answer),
              LAMBDA questions :
                  IF lines # <<>> /\ ~AllOfType(questions, "str")
                  THEN Raise("AttributeError")
                  ELSE Ok(OrElse(GroupByQuestion(questions, lines), KeyFindingsOf(lines))))

\* Lines 225-285: findings given as a list of str.
StructureLines(lines, questions_to_answer) ==
    Bind(ScanLines(lines, 1, <<>>, <<>>, <<>>),
         LAMBDA structured_findings :
             IF structured_findings # <<>> THEN Ok(structured_findings)
             ELSE Fallbacks(lines, questions_to_answer))

\* str(x), for a str and for an int of one digit
StrOf(x) ==
    CASE x.t = "str" -> x
      [] x.t = "int" /\ x.n \in 0..1 -> PyStr(<<IF x.n = 0 THEN "0" ELSE "1">>)

\* if k not in f: f[k] = val
SetDefault(f, k, val) == IF HasKey(f, k) THEN f ELSE PyDict(Append(f.l, Entry(k, val)))

\* Lines 288-292: a finding given as a dict gets the keys it lacks.
Backfill(f) ==
    SetDefault(SetDefault(f, "section", PyStr(KeyFindings)),
               "points",
               IF HasKey(f, "content")
               THEN PyList(<<StrOf(Get(f, "content", PyNone))>>)
               ELSE EmptyList)

\* A finding of the result, if it has a point left.
Finding(section, points) ==
    IF points # <<>> THEN <<[section |-> section, points |-> points]>> ELSE <<>>

\* Lines 300-302: the section and the points of one finding, cleaned.
CleanFinding(item) ==
    Bind(CleanText(Get(item, "section", PyStr(<<>>))),
         LAMBDA section :
             Bind(Bind(Iterate(Get(item, "points", EmptyList)), CleanAll),
                  LAMBDA points : Ok(Finding(section, DropBlank(points)))))

\* Lines 297-307: the findings that are dicts, cleaned, those without a
\* point left dropped.
RECURSIVE CleanFindings(_)
CleanFindings(items) ==
    IF items = <<>> THEN Ok(<<>>)
    ELSE IF Head(items).t # "dict" THEN CleanFindings(Tail(items))
    ELSE Bind(CleanFinding(Head(items)),
              LAMBDA finding : Cat(finding, CleanFindings(Tail(items))))

\* dict[k] = val
SetEntry(x, k, val) ==
    IF HasKey(x, k)
    THEN PyDict([i \in 1..Len(x.l) |-> IF x.l[i].s = <<k>> THEN Entry(k, val) ELSE x.l[i]])
    ELSE PyDict(Append(x.l, Entry(k, val)))

\* A display label, held as one token.
Label(name) == PyStr(<<name>>)

RoundKey == <<"r", "o", "u", "n", "d">>

RoleOf(round) ==
    IF round.t = "int" /\ round.n = 1 THEN Label("Initial Researcher")
    ELSE IF round.t = "int" /\ round.n = 2 THEN Label("Critical Analyst")
    ELSE Label("Practical Implementer")

\* Lines 312-315: the role derived from metadata["round"].
WithRole(metadata) ==
    CASE metadata.t = "dict" ->
            IF ~HasKey(metadata, "round") THEN Ok(metadata)
            ELSE Ok(SetEntry(metadata, "role", RoleOf(Get(metadata, "round", PyNone))))
      [] metadata.t = "list" ->
            IF \E i \in 1..Len(metadata.l) : metadata.l[i] = PyStr(RoundKey)
            THEN Raise("TypeError") ELSE Ok(metadata)
      [] metadata.t = "str" ->
            IF IsSubstring(RoundKey, metadata.s) THEN Raise("TypeError") ELSE Ok(metadata)
      [] OTHER -> Raise("TypeError")

\* Lines 223-292: the findings as the list that lines 297-307 clean.
Structure(findings, questions_to_answer) ==
    IF findings.t # "list" THEN Iterate(findings)
    ELSE IF AllOfType(findings.l, "str")
    THEN StructureLines(findings.l, questions_to_answer)
    ELSE IF AllOfType(findings.l, "dict")
    THEN Ok([i \in 1..Len(findings.l) |-> Backfill(findings.l[i])])
    ELSE Ok(findings.l)

\* Lines 221-322: the response decoded to the value obj.
ParseObject(obj) ==
    IF obj.t # "dict" THEN Raise("AttributeError")
    ELSE
    Bind(Bind(Structure(Get(obj, "findings", EmptyList),
                        Get(obj, "questions_to_answer", EmptyList)),
              CleanFindings),
         LAMBDA cleaned_findings :
    Bind(Bind(Iterate(Get(obj, "questions", EmptyList)), CleanAll),
         LAMBDA cleaned_questions :
    Bind(WithRole(Get(obj, "metadata", EmptyDict)),
         LAMBDA metadata :
             Ok([findings |-> cleaned_findings,
                 questions |-> DropBlank(cleaned_questions),
                 metadata |-> metadata,
                 questions_to_answer |-> Get(obj, "questions_to_answer", EmptyList)]))))

\* Lines 323-332: the whole text as the one point of "Key Findings".
OpaqueText(text) ==
    [findings |-> <<[section |-> KeyFindings, points |-> <<text>>]>>,
     questions |-> <<>>,
     metadata |-> EmptyDict,
     questions_to_answer |-> EmptyList]

\* process_agent_response(finding): json.loads of a str, then ParseObject;
\* the JSONDecodeError handler wraps the whole text as one point.
ProcessAgentResponse(finding) ==
    IF finding.t = "str"
    THEN Bind(CleanText(finding), LAMBDA text : Ok(OpaqueText(text)))
    ELSE ParseObject(IF finding.t = "json" THEN finding.l[1] ELSE finding)

\* --------------------------------------------------- get_relevant_context

MinPoints == 2

MinPointLen == 50

MinQuestions == 3

ChallengesQuestion ==
    <<"W", "h", "a", "t", " ", "a", "r", "e", " ", "t", "h", "e", " ", "k",
      "e", "y", " ", "c", "h", "a", "l", "l", "e", "n", "g", "e", "s", " ",
      "a", "n", "d", " ", "l", "i", "m", "i", "t", "a", "t", "i", "o", "n",
      "s", " ", "i", "n", " ", "t", "h", "i", "s", " ", "a", "r", "e", "a",
      "?">>

ApplicationQuestion ==
    <<"H", "o", "w", " ", "c", "a", "n", " ", "t", "h", "e", "s", "e", " ",
      "f", "i", "n", "d", "i", "n", "g", "s", " ", "b", "e", " ", "a", "p",
      "p", "l", "i", "e", "d", " ", "i", "n", " ", "r", "e", "a", "l", "-",
      "w", "o", "r", "l", "d", " ", "s", "c", "e", "n", "a", "r", "i", "o",
      "s", "?">>

FutureQuestion ==
    <<"W", "h", "a", "t", " ", "f", "u", "t", "u", "r", "e", " ", "d", "e",
      "v", "e", "l", "o", "p", "m", "e", "n", "t", "s", " ", "o", "r", " ",
      "t", "r", "e", "n", "d", "s", " ", "s", "h", "o", "u", "l", "d", " ",
      "b", "e", " ", "c", "o", "n", "s", "i", "d", "e", "r", "e", "d", "?">>

GenericQuestions == <<ChallengesQuestion, ApplicationQuestion, FutureQuestion>>

\* What get_relevant_context returns: a Context Bundle, or None.
Bundle(questions, findings) ==
    [is_none |-> FALSE, previous_questions |-> questions, relevant_findings |-> findings]

NoContext == [is_none |-> TRUE, previous_questions |-> <<>>, relevant_findings |-> <<>>]

\* Lines 66-72: findings.extend(item["findings"]) over the entries of the
\* store's answer that are dicts with findings.
RECURSIVE ExtendFindings(_)
ExtendFindings(items) ==
    IF items = <<>> THEN Ok(<<>>)
    ELSE IF Head(items).t = "dict" /\ HasKey(Head(items), "findings")
         THEN Bind(Iterate(Get(Head(items), "findings", EmptyList)),
                   LAMBDA more : Cat(more, ExtendFindings(Tail(items))))
         ELSE ExtendFindings(Tail(items))

\* len(x)
PyLen(x) ==
    CASE x.t = "str" -> Ok(Len(x.s))
      [] x.t \in {"list", "dict"} -> Ok(Len(x.l))
      [] OTHER -> Raise("TypeError")

\* any(len(point.strip()) > 50 for point in points), from point i on
RECURSIVE AnyLongPoint(_, _)
AnyLongPoint(points, i) ==
    IF i > Len(points) THEN Ok(FALSE)
    ELSE IF points[i].t # "str" THEN Raise("AttributeError")
    ELSE IF Len(Strip(points[i].s)) > MinPointLen THEN Ok(TRUE)
    ELSE AnyLongPoint(points, i + 1)

\* Only an equal section counts as seen.
SeenExactly(section, seen_sections) == section \in seen_sections

\* any(section in seen or seen in section for seen in seen_sections)
SeenSection(section, seen_sections) ==
    \E seen \in seen_sections : IsSubstring(section, seen) \/ IsSubstring(seen, section)

\* finding.get("section", "").lower()
SectionOf(finding) ==
    IF finding.t # "dict" THEN Raise("AttributeError")
    ELSE IF Get(finding, "section", PyStr(<<>>)).t # "str" THEN Raise("AttributeError")
    ELSE Ok(Lower(Get(finding, "section", PyStr(<<>>)).s))

\* A finding passes with any point at all.
AnyPoints(points) == Bind(PyLen(points), LAMBDA n : Ok(n >= 1))

\* Lines 84-88: not (len(points) < 2) and any point longer than 50
Substantive(points) ==
    Bind(PyLen(points),
         LAMBDA n : IF n < MinPoints THEN Ok(FALSE) ELSE AnyLongPoint(Iterate(points).v, 1))

RECURSIVE UniqueFindings(_, _, _, _)

\* The section is recorded as seen before the quality filter is applied.
SeenBeforeFilter(findings, i, seen_sections, unique_findings) ==
    IF i > Len(findings) THEN Ok(unique_findings)
    ELSE Bind(SectionOf(findings[i]),
              LAMBDA section :
                  IF SeenSection(section, seen_sections)
                  THEN UniqueFindings(findings, i + 1, seen_sections, unique_findings)
                  ELSE Bind(Substantive(Get(findings[i], "points", EmptyList)),
                            LAMBDA kept :
                                UniqueFindings(findings, i + 1,
                                               seen_sections \cup {section},
                                               IF kept THEN Append(unique_findings, findings[i])
                                               ELSE unique_findings)))

\* Lines 74-91: the duplicate check and the quality filter, from finding i on.
UniqueFindings(findings, i, seen_sections, unique_findings) ==
    IF i > Len(findings) THEN Ok(unique_findings)
    ELSE Bind(SectionOf(findings[i]),
              LAMBDA section :
                  IF SeenSection(section, seen_sections)
                  THEN UniqueFindings(findings, i + 1, seen_sections, unique_findings)
                  ELSE Bind(Substantive(Get(findings[i], "points", EmptyList)),
                            LAMBDA kept :
                                IF kept
                                THEN UniqueFindings(findings, i + 1,
                                                    seen_sections \cup {section},
                                                    Append(unique_findings, findings[i]))
                                ELSE UniqueFindings(findings, i + 1, seen_sections,
                                                    unique_findings)))

\* The questions of the last entry of a list, or of an aggregate mapping.
LatestQuestions(kb_data) ==
    IF kb_data.t = "list"
    THEN IF kb_data.l # <<>> THEN Get(kb_data.l[Len(kb_data.l)], "questions", EmptyList)
         ELSE EmptyList
    ELSE Get(kb_data, "questions", EmptyList)

\* Lines 93-100: the questions of the second-to-last entry of a list, or
\* of an aggregate mapping.
PriorQuestions(kb_data) ==
    IF kb_data.t = "list"
    THEN IF Len(kb_data.l) >= 2
            /\ kb_data.l[Len(kb_data.l) - 1].t = "dict"
            /\ HasKey(kb_data.l[Len(kb_data.l) - 1], "questions")
         THEN Get(kb_data.l[Len(kb_data.l) - 1], "questions", EmptyList)
         ELSE EmptyList
    ELSE IF kb_data.t = "dict" /\ HasKey(kb_data, "questions")
    THEN Get(kb_data, "questions", EmptyList)
    ELSE EmptyList

\* list(dict.fromkeys(xs))
RECURSIVE Dedup(_, _)
Dedup(xs, seen) ==
    IF xs = <<>> THEN <<>>
    ELSE IF Head(xs) \in seen THEN Dedup(Tail(xs), seen)
    ELSE <<Head(xs)>> \o Dedup(Tail(xs), seen \cup {Head(xs)})

\* The questions as they are, however few.
Unpadded(unique_questions) == unique_questions

\* Lines 105-110: fewer than three questions get the three generic ones.
Padded(unique_questions) ==
    IF Len(unique_questions) < MinQuestions
    THEN unique_questions \o GenericQuestions
    ELSE unique_questions

\* Lines 102-110
UniqueQuestions(questions) ==
    Bind(Bind(Iterate(questions), CleanAll),
         LAMBDA clean_questions : Ok(Padded(Dedup(clean_questions, {}))))

\* Lines 57-59: a str answer is decoded by json.loads
KbData(result) == IF result.t = "json" THEN result.l[1] ELSE result

\* Lines 64-72
Findings(kb_data) ==
    IF kb_data.t = "list" THEN ExtendFindings(kb_data.l)
    ELSE IF kb_data.t = "dict" THEN ExtendFindings(<<kb_data>>)
    ELSE Ok(<<>>)

\* for finding in findings: ... from the first finding, nothing seen
FilterFindings(findings) == UniqueFindings(findings, 1, {}, <<>>)

\* Lines 57-118, for the last result of the store's answer; a str that
\* json.loads rejects gives the empty bundle of lines 60-62.
ContextOf(result) ==
    IF result.t = "str" THEN Ok(Bundle(<<>>, <<>>))
    ELSE Bind(Bind(Findings(KbData(result)), FilterFindings),
              LAMBDA unique_findings :
                  Bind(UniqueQuestions(PriorQuestions(KbData(result))),
                       LAMBDA unique_questions :
                           Ok(Bundle(unique_questions, unique_findings))))

\* Lines 120-121: the handler logs and falls off the end, so None comes back.
Swallow(context) == IF context.ok THEN context ELSE Ok(NoContext)

\* get_relevant_context: answer is what kb.run did, Ok(last result) or a
\* raise.
GetRelevantContext(answer) == Swallow(Bind(answer, ContextOf))

\* ---------------------------------------------- summarize_questions_to_topic

\* x[k] of a dict (or x.k of an object, which the model holds as a node of
\* type "object" with its attributes as entries), or the raise
Member(x, type, k) ==
    IF x.t = type /\ HasKey(x, k) THEN Ok(Get(x, k, PyNone))
    ELSE Raise(IF x.t # type THEN (IF type = "dict" THEN "TypeError" ELSE "AttributeError")
               ELSE IF type = "dict" THEN "KeyError" ELSE "AttributeError")

\* x[0]
First(x) ==
    IF x.t = "list" THEN (IF x.l # <<>> THEN Ok(x.l[1]) ELSE Raise("IndexError"))
    ELSE Raise("TypeError")

\* response[k1][0][k2][k3] of a dict, response.k1[0].k2.k3 of an object
Path(response, type) ==
    Bind(Bind(Bind(Member(response, type, "choices"), First),
              LAMBDA choice : Member(choice, type, "message")),
         LAMBDA message : Member(message, type, "content"))

\* Lines 153-156: response['choices'][0]['message']['content'] of a dict,
\* response.choices[0].message.content of anything else.
Completion(response) == Path(response, IF response.t = "dict" THEN "dict" ELSE "object")

\* Lines 158-161: clean_text(topic), or the handler's return of the local
\* topic, which line 154 or 156 has set to the completion.
Cleaned(cleaned, topic) == IF cleaned.ok THEN PyStr(cleaned.v) ELSE topic

\* Lines 153-161, for the completion that was extracted or the raise.
TopicFrom(completion, topic) ==
    IF ~completion.ok THEN topic
    ELSE Cleaned(CleanText(completion.v), completion.v)

\* summarize_questions_to_topic(questions, topic, ...): inference is what
\* run_inference did, Ok(response) or a raise.
SummarizeQuestionsToTopic(questions, topic, inference) ==
    TopicFrom(Bind(inference, Completion), topic)

\* ------------------------------------------------------------------ prompts

ResearchTopicPrefix ==
    <<"R", "e", "s", "e", "a", "r", "c", "h", " ", "T", "o", "p", "i", "c",
      ":", " ">>

\* The fixed text of each prompt is held as its first line.
ResearchGuidelines ==
    <<"Y", "o", "u", " ", "a", "r", "e", " ", "t", "h", "e", " ", "R", "e",
      "s", "e", "a", "r", "c", "h", " ", "A", "g", "e", "n", "t", ".", " ",
      "Y", "o", "u", "r", " ", "r", "o", "l", "e", " ", "i", "s", " ", "t",
      "o", ":">>

TopicPrefix ==
    <<"T", "o", "p", "i", "c", ":", " ">>

AnalystGuidelines ==
    <<"Y", "o", "u", " ", "a", "r", "e", " ", "t", "h", "e", " ", "C", "r",
      "i", "t", "i", "c", "a", "l", " ", "A", "n", "a", "l", "y", "s", "t",
      ".", " ", "Y", "o", "u", "r", " ", "r", "o", "l", "e", " ", "i", "s",
      " ", "t", "o", ":">>

SynthesizerGuidelines ==
    <<"Y", "o", "u", " ", "a", "r", "e", " ", "t", "h", "e", " ", "S", "y",
      "n", "t", "h", "e", "s", "i", "z", "e", "r", ".", " ", "Y", "o", "u",
      "r", " ", "r", "o", "l", "e", " ", "i", "s", " ", "t", "o", ":">>

BuildUpon ==
    <<"R", "e", "m", "e", "m", "b", "e", "r", " ", "t", "o", " ", "b", "u",
      "i", "l", "d", " ", "u", "p", "o", "n", " ">>

RatherThan ==
    <<" ", "r", "a", "t", "h", "e", "r", " ", "t", "h", "a", "n", " ", "r",
      "e", "p", "e", "a", "t", "i", "n", "g", " ", "t", "h", "e", "m", ".">>

\* create_research_prompt(topic)
CreateResearchPrompt(topic) == ResearchTopicPrefix \o topic \o <<"NL", "NL">> \o ResearchGuidelines

\* f"{x}"
Format(x) ==
    CASE x.t = "str" -> x.s
      [] x.t = "none" -> <<"N", "o", "n", "e">>
      [] x.t = "int" -> StrOf(x).s

\* ', '.join(points)
RECURSIVE Join(_)
Join(points) ==
    IF points = <<>> THEN <<>>
    ELSE IF Len(points) = 1 THEN points[1].s
    ELSE points[1].s \o <<",", " ">> \o Join(Tail(points))

\* f"- {finding['section']}: {', '.join(finding['points'])}\n"
FindingLine(finding) ==
    Bind(Member(finding, "dict", "section"),
         LAMBDA section :
             Bind(Bind(Member(finding, "dict", "points"), Iterate),
                  LAMBDA points :
                      IF ~AllOfType(points, "str") THEN Raise("TypeError")
                      ELSE Ok(<<"-", " ">> \o Format(section) \o <<":", " ">>
                              \o Join(points) \o <<"NL">>)))

\* Lines 103-106: one line "- section: points" per finding, and a newline.
RECURSIVE FindingsText(_)
FindingsText(findings) ==
    IF findings = <<>> THEN Ok(<<"NL">>)
    ELSE Bind(FindingLine(Head(findings)),
              LAMBDA line : Cat(line, FindingsText(Tail(findings))))

RoleGuidelines(agent_name) ==
    CASE agent_name = "analyst" -> AnalystGuidelines
      [] agent_name = "synthesizer" -> SynthesizerGuidelines
      [] OTHER -> ResearchGuidelines

\* A prompt for every context: one without findings, or None, gives no
\* findings text.
PromptOfAnyContext(summarised_topic, agent_name, context) ==
    Bind(IF context.relevant_findings = <<>> THEN Ok(<<>>)
         ELSE FindingsText(context.relevant_findings),
         LAMBDA previous_findings_text :
             Ok(TopicPrefix \o Format(summarised_topic) \o <<"NL", "NL">>
                \o RoleGuidelines(agent_name) \o <<"NL", "NL">>
                \o BuildUpon \o previous_findings_text \o RatherThan))

\* create_agent_prompt(current_topic, summarised_topic, agent_name, context):
\* previous_findings_text is bound only when the context has findings.
CreateAgentPrompt(summarised_topic, agent_name, context) ==
    IF context.is_none THEN Raise("AttributeError")
    ELSE IF context.relevant_findings = <<>> THEN Raise("UnboundLocalError")
    ELSE Bind(FindingsText(context.relevant_findings),
              LAMBDA previous_findings_text :
                  Ok(TopicPrefix \o Format(summarised_topic) \o <<"NL", "NL">>
                     \o RoleGuidelines(agent_name) \o <<"NL", "NL">>
                     \o BuildUpon \o previous_findings_text \o RatherThan))

\* ------------------------------------------------ GroupChatOrchestrator.run

\* The invocations of run that the model follows.
RunIds == {1, 2}

NumRounds == 3

VARIABLES
    runs,       \* runs[r]: the frame of invocation r of run (its locals)
    store,      \* the knowledge base: the entries add_data has appended
    input,      \* the argument of the function under test (function specs)
    output      \* what the function under test returned

vars == <<runs, store, input, output>>

NoData == [findings |-> <<>>, questions |-> <<>>, error |-> "none"]

NoEntry ==
    [run_id |-> 0, topic |-> <<>>, findings |-> <<>>, questions |-> <<>>,
     round |-> 0, type |-> "none"]

NoResult ==
    [status |-> "none", findings |-> <<>>, questions |-> <<>>, run_id |-> 0,
     num_rounds |-> 0, final_topic |-> <<>>, message |-> "none"]

\* The locals of run before the call, and the history the properties read:
\* topic (the argument), inflight (the external calls awaited), log (the
\* external calls made, in order), failed (the external calls that raised,
\* or answered with a text that is no JSON), malformed (the rounds whose
\* response was no JSON object), parsed (what each round's parse step left
\* as the round's data), raised (the exception that reached the handler of
\* line 243).
IdleFrame ==
    [pc |-> "idle", round |-> 0, run_id |-> 0, topic |-> PyNone,
     failed |-> {}, malformed |-> {},
     current_topic |-> <<>>, summarised_topic |-> PyNone,
     research_data |-> NoData, agent_data |-> NoData,
     all_findings |-> <<>>, all_questions |-> <<>>,
     context |-> NoContext, agent_prompt |-> <<>>, kb_input |-> NoEntry,
     result |-> NoResult,
     inflight |-> {}, log |-> <<>>, parsed |-> <<>>, raised |-> "none"]

AgentNames == <<"researcher", "analyst", "synthesizer">>

\* metadata.type of the round's entry: "research", then the agent's name
EntryTypes == <<"research", "analyst", "synthesizer">>

\* An id that every invocation shares.
OneId(r) == 1

\* str(uuid.uuid4()): a fresh id, unique to the invocation
Uuid4(r) == r

Call(name, round) == [call |-> name, round |-> round]

\* The call is made: it is in flight until its await returns.
Issue(f, call) ==
    [f EXCEPT !.inflight = @ \cup {call}, !.log = Append(@, call)]

\* The call is not awaited: it stays in flight.
NotAwaited(inflight, call) == inflight

\* await: the frame resumes once the awaited call is over.
Awaited(inflight, call) == inflight \ {call}

\* await: the frame of the call that is over, in failure or not.
Resumed(f, call, failure) ==
    [f EXCEPT !.inflight = Awaited(@, call),
              !.failed = IF failure THEN @ \cup {call} ELSE @]

\* No handler: the exception leaves run, and there is no result.
Escapes(e) == NoResult

\* Lines 243-249: the handler of the whole body.
ExceptHandler(e) == [NoResult EXCEPT !.status = "error", !.message = e]

\* The exception is noted and the body goes on where it was.
GoesOn(f, e) == [f EXCEPT !.raised = e]

Abort(f, e) ==
    [f EXCEPT !.pc = "done", !.result = ExceptHandler(e), !.raised = e]

\* A step of the body: its raise reaches the handler of line 243.
Try(f, res, Rest(_)) == IF res.ok THEN Rest(res.v) ELSE Abort(f, res.exc)

\* Lines 232-241
SuccessResult(f) ==
    [status |-> "success", findings |-> f.all_findings, questions |-> f.all_questions,
     run_id |-> f.run_id, num_rounds |-> NumRounds, final_topic |-> f.current_topic,
     message |-> "none"]

\* Every entry is labelled as the researcher's entry of round 1.
KbInputOfResearch(f, data) ==
    [run_id |-> f.run_id, topic |-> f.current_topic,
     findings |-> data.findings, questions |-> data.questions,
     round |-> 1, type |-> EntryTypes[1]]

\* Lines 96-106 and 203-213
KbInput(f, data) ==
    [run_id |-> f.run_id, topic |-> f.current_topic,
     findings |-> data.findings, questions |-> data.questions,
     round |-> f.round, type |-> EntryTypes[f.round]]

\* result.results[-1]
LastResult(results) ==
    IF results = <<>> THEN Raise("IndexError") ELSE Ok(results[Len(results)])

\* The failed round keeps a placeholder finding.
RoundDataKept(parsed) ==
    IF parsed.ok
    THEN [findings |-> parsed.v.findings, questions |-> parsed.v.questions, error |-> "none"]
    ELSE [findings |-> <<[section |-> KeyFindings, points |-> <<>>]>>,
          questions |-> <<>>, error |-> parsed.exc]

\* Lines 77-93 and 174-200: what the try leaves as the round's data, the
\* parsed record or the empty record that carries the error.
RoundData(parsed) ==
    IF parsed.ok
    THEN [findings |-> parsed.v.findings, questions |-> parsed.v.questions, error |-> "none"]
    ELSE [findings |-> <<>>, questions |-> <<>>, error |-> parsed.exc]

\* Lines 77-93 and 174-200, up to the first await.
ParseRound(results) == RoundData(Bind(LastResult(results), ProcessAgentResponse))

\* Lines 95-117 and 202-224: the round's entry is built and add_data called.
IssueWrite(f, data) ==
    Issue([f EXCEPT !.kb_input = KbInput(f, data), !.pc = "write"], Call("add_data", f.round))

\* Lines 52-56: the run's id, and round 1.
Started(f, r, topic) == [f EXCEPT !.run_id = Uuid4(r), !.round = 1, !.topic = topic]

\* Lines 52-75: run is called with a topic.
StartFrame(f, r, topic) ==
    Try(Started(f, r, topic), CleanText(topic),
        LAMBDA current_topic :
            Try(Started(f, r, topic), CleanStr(CreateResearchPrompt(current_topic)),
                LAMBDA formatted_prompt :
                    Issue([Started(f, r, topic) EXCEPT !.current_topic = current_topic,
                                                       !.pc = "agent"],
                          Call(AgentNames[1], 1))))

\* Lines 77-117 and 174-192: the round's data is kept; round 1 and a failed
\* parse go on to the write, a parsed round 2 or 3 to the summary first.
Parsed(f, data) ==
    IF f.round = 1
    THEN IssueWrite([f EXCEPT !.parsed = Append(@, data), !.research_data = data], data)
    ELSE IF data.error # "none"
    THEN IssueWrite([f EXCEPT !.parsed = Append(@, data), !.agent_data = data], data)
    ELSE Issue([f EXCEPT !.parsed = Append(@, data), !.agent_data = data,
                         !.pc = "summarize"],
               Call("inference", f.round))

\* The response of the round is a JSON object.
WellFormed(results) ==
    /\ results # <<>>
    /\ results[Len(results)].t = "json"
    /\ results[Len(results)].l[1].t = "dict"

Heard(f, results) ==
    [f EXCEPT !.malformed = IF WellFormed(results) THEN @ ELSE @ \cup {f.round}]

\* Lines 60-93 and 157-200: the agent's run returns, or raises.
AfterAgent(f, outcome) ==
    Try(Resumed(f, Call(AgentNames[f.round], f.round), ~outcome.ok), outcome,
        LAMBDA results :
            Parsed(Heard(Resumed(f, Call(AgentNames[f.round], f.round), FALSE), results),
                   ParseRound(results)))

\* Lines 139-172: round round_num starts with the store's query.
IssueQuery(f, round_num) ==
    Issue([f EXCEPT !.round = round_num, !.pc = "query"], Call("query", round_num))

\* The round's findings and questions replace the ones collected so far.
Replace(f) ==
    [f EXCEPT !.all_findings = f.agent_data.findings,
              !.all_questions = f.agent_data.questions,
              !.research_data.findings = f.agent_data.findings,
              !.research_data.questions = f.agent_data.questions]

\* Lines 226-230: extend is in place, and all_findings and all_questions are
\* the lists of research_data (lines 120-121).
Extend(f) ==
    [f EXCEPT !.all_findings = @ \o f.agent_data.findings,
              !.all_questions = @ \o f.agent_data.questions,
              !.research_data.findings = f.all_findings \o f.agent_data.findings,
              !.research_data.questions = f.all_questions \o f.agent_data.questions]

\* After the round's write the analyst's round starts over.
RoundAgain(f) == IssueQuery(f, 2)

\* Lines 134 and 232-241: the next agent's round, or the result.
NextRound(f) ==
    IF f.round < NumRounds THEN IssueQuery(f, f.round + 1)
    ELSE [f EXCEPT !.pc = "done", !.result = SuccessResult(f)]

\* Lines 119-129 and 226-241: after the round's write.
Written(f) ==
    IF f.round = 1
    THEN Issue([f EXCEPT !.all_findings = f.research_data.findings,
                         !.all_questions = f.research_data.questions,
                         !.pc = "summarize"],
               Call("inference", 1))
    ELSE NextRound(Extend(f))

\* Lines 109-131 and 216-241: add_data returns, or raises.
AfterWrite(f, outcome) ==
    Try(Resumed(f, Call("add_data", f.round), ~outcome.ok), outcome,
        LAMBDA added : Written(Resumed(f, Call("add_data", f.round), FALSE)))

\* Lines 124-131 and 187-192: the summary is kept; round 1 goes on to the
\* analyst's round, round 2 or 3 to its write.
Summarised(f, summarised_topic) ==
    IF f.round = 1
    THEN IssueQuery([f EXCEPT !.summarised_topic = summarised_topic], 2)
    ELSE IssueWrite([f EXCEPT !.summarised_topic = summarised_topic], f.agent_data)

\* Lines 124-129 and 187-192: run_inference returns, or raises, inside
\* summarize_questions_to_topic.
AfterInference(f, inference) ==
    Summarised(Resumed(f, Call("inference", f.round), ~inference.ok),
               SummarizeQuestionsToTopic(IF f.round = 1 THEN f.all_questions
                                         ELSE f.agent_data.questions,
                                         PyStr(f.current_topic), inference))

\* Lines 149-172: the prompt is built from the context and the agent called.
Prompted(f) ==
    Try(f, CreateAgentPrompt(f.summarised_topic, AgentNames[f.round], f.context),
        LAMBDA agent_prompt :
            Try([f EXCEPT !.agent_prompt = agent_prompt], CleanStr(agent_prompt),
                LAMBDA formatted_prompt :
                    Issue([f EXCEPT !.agent_prompt = agent_prompt, !.pc = "agent"],
                          Call(AgentNames[f.round], f.round))))

\* The store's query raised, or its last result is a text that is no JSON.
Undecodable(answer) == IF answer.ok THEN answer.v.t = "str" ELSE TRUE

\* Lines 139-172: the store's query returns, or raises, inside
\* get_relevant_context; then the prompt is built and the agent called.
AfterQuery(f, answer) ==
    Try(Resumed(f, Call("query", f.round), Undecodable(answer)), GetRelevantContext(answer),
        LAMBDA context :
            Prompted([Resumed(f, Call("query", f.round), Undecodable(answer))
                         EXCEPT !.context = context]))

\* ----------------------------------------------- the collaborators' answers

\* A point longer than the quality filter's 50 characters.
LongPoint == [i \in 1..(MinPointLen + 1) |-> "x"]

Garbage == <<"o", "o", "p", "s", " ", "#", "!">>

\* The topics run is called with: one that cleans, one that clean_text
\* rejects (it ends in a backslash).
Topics == << PyStr(<<"t", "o", "p", " ", "#", "1">>), PyStr(<<"t", BS>>) >>

\* A well-formed reply: one section with a long and a short point, and one
\* question.
GoodResponse(tag) ==
    PyJson(PyDict(<<
        Entry("findings", StrList(<< SectionPrefix \o <<" ", tag>>,
                                     <<"-", " ">> \o LongPoint,
                                     <<"-", " ", "p", tag>> >>)),
        Entry("questions", StrList(<< <<"q", tag, "?">> >>)) >>))

\* A well-formed reply with two sections, the second one with one short
\* point only.
MixedResponse ==
    PyJson(PyDict(<<
        Entry("findings", StrList(<< SectionPrefix \o <<" ", "m">>,
                                     <<"-", " ">> \o LongPoint,
                                     <<"-", " ", "p", "m">>,
                                     SectionPrefix \o <<" ", "b", "r", "i", "e", "f">>,
                                     <<"-", " ", "s", "h", "o", "r", "t">> >>)),
        Entry("questions", StrList(<< <<"q", "m", "?">> >>)) >>))

\* What an agent's run does: it raises, or returns results of which the last
\* is read: no result at all, a text that is no JSON, a JSON list, a
\* well-formed reply.
AgentOutcomes ==
    << Raise("AgentError"),
       Ok(<<>>),
       Ok(<<PyStr(Garbage)>>),
       Ok(<<PyJson(EmptyList)>>),
       Ok(<<GoodResponse("a")>>),
       Ok(<<PyStr(Garbage), GoodResponse("b")>>),
       Ok(<<MixedResponse>>) >>

ChatResponse(content) ==
    PyDict(<<Entry("choices",
                   PyList(<<PyDict(<<Entry("message",
                                           PyDict(<<Entry("content", content)>>))>>)>>))>>)

\* The questions that summarize_questions_to_topic puts in its prompt.
Prompt(f) == IF f.round = 1 THEN f.all_questions ELSE f.agent_data.questions

\* What run_inference does for the questions of the prompt: it raises, or
\* completes with a topic made of the first question, with nothing, or with
\* a text that clean_text rejects.
InferenceOutcomes(questions) ==
    << Raise("InferenceError"),
       Ok(ChatResponse(PyStr(<<"o", "n", " ">> \o
                             (IF questions = <<>> THEN <<"i", "t">> ELSE questions[1])))),
       Ok(ChatResponse(PyStr(<<>>))),
       Ok(ChatResponse(PyStr(<<"n", BS>>))) >>

FindingNode(finding) == FindingDict(finding.section, finding.points)

\* An entry as the store returns it.
EntryNode(e) ==
    PyDict(<< Entry("run_id", PyInt(e.run_id)),
              Entry("topic", PyStr(e.topic)),
              Entry("findings", PyList([i \in 1..Len(e.findings) |-> FindingNode(e.findings[i])])),
              Entry("questions", StrList(e.questions)),
              Entry("metadata", PyDict(<< Entry("round", PyInt(e.round)),
                                          Entry("topic", PyStr(e.topic)),
                                          Entry("type", Label(e.type)) >>)) >>)

EntryNodes(entries) == [i \in 1..Len(entries) |-> EntryNode(entries[i])]

RECURSIVE Flatten(_)
Flatten(lists) == IF lists = <<>> THEN <<>> ELSE Head(lists) \o Flatten(Tail(lists))

\* One mapping for all the entries: their findings and their questions.
Aggregate(entries) ==
    PyDict(<< Entry("findings",
                    PyList(Flatten([i \in 1..Len(entries) |-> EntryNodes(entries)[i].l[3].l[1].l]))),
              Entry("questions",
                    StrList(Flatten([i \in 1..Len(entries) |-> entries[i].questions]))) >>)

\* What the store's query does with the entries it holds: it raises, or its
\* last result is a text that is no JSON, the entries in write order as a
\* JSON document, or one aggregate mapping.
QueryAnswers(entries) ==
    << Raise("StoreError"),
       Ok(PyStr(Garbage)),
       Ok(PyJson(PyList(EntryNodes(entries)))),
       Ok(Aggregate(entries)) >>

\* ---------------------------------------------------------------- actions

\* The function under test has not been called.
NotCalled == [ok |-> FALSE, v |-> <<>>, exc |-> "not called"]

Called == output.exc # "not called"

Init ==
    /\ runs = [r \in RunIds |-> IdleFrame]
    /\ store = <<>>
    /\ input = PyNone
    /\ output = NotCalled

RunCalled(r) ==
    /\ runs[r].pc = "idle"
    /\ \E i \in DOMAIN Topics : runs' = [runs EXCEPT ![r] = StartFrame(@, r, Topics[i])]
    /\ UNCHANGED <<store, input, output>>

AgentReturns(r) ==
    /\ runs[r].pc = "agent"
    /\ \E i \in DOMAIN AgentOutcomes :
          runs' = [runs EXCEPT ![r] = AfterAgent(@, AgentOutcomes[i])]
    /\ UNCHANGED <<store, input, output>>

WriteReturns(r) ==
    /\ runs[r].pc = "write"
    /\ runs' = [runs EXCEPT ![r] = AfterWrite(@, Ok(<<>>))]
    /\ store' = Append(store, runs[r].kb_input)
    /\ UNCHANGED <<input, output>>

WriteFails(r) ==
    /\ runs[r].pc = "write"
    /\ runs' = [runs EXCEPT ![r] = AfterWrite(@, Raise("StoreError"))]
    /\ UNCHANGED <<store, input, output>>

InferenceReturns(r) ==
    /\ runs[r].pc = "summarize"
    /\ \E i \in DOMAIN InferenceOutcomes(Prompt(runs[r])) :
          runs' = [runs EXCEPT ![r] = AfterInference(@, InferenceOutcomes(Prompt(runs[r]))[i])]
    /\ UNCHANGED <<store, input, output>>

QueryReturns(r) ==
    /\ runs[r].pc = "query"
    /\ \E i \in DOMAIN QueryAnswers(store) :
          runs' = [runs EXCEPT ![r] = AfterQuery(@, QueryAnswers(store)[i])]
    /\ UNCHANGED <<store, input, output>>

Step(r) ==
    \/ RunCalled(r)
    \/ AgentReturns(r)
    \/ WriteReturns(r)
    \/ WriteFails(r)
    \/ InferenceReturns(r)
    \/ QueryReturns(r)

\* One invocation of run.
Next == Step(1)

Spec == Init /\ [][Next]_vars

\* ----------------------------------------------- two invocations at once

\* The reply of an agent of invocation r: a well-formed one that names r.
OwnResponse(r) == GoodResponse(<<"a", "b">>[r])

\* What an agent of invocation r does: it raises or it replies.
OwnOutcomes(r) == << Raise("AgentError"), Ok(<<OwnResponse(r)>>) >>

\* run(topic) is called twice on the orchestrator, with one topic.
RunCalledTwice(r) ==
    /\ runs[r].pc = "idle"
    /\ runs' = [runs EXCEPT ![r] = StartFrame(@, r, Topics[1])]
    /\ UNCHANGED <<store, input, output>>

OwnAgentReturns(r) ==
    /\ runs[r].pc = "agent"
    /\ \E i \in DOMAIN OwnOutcomes(r) :
          runs' = [runs EXCEPT ![r] = AfterAgent(@, OwnOutcomes(r)[i])]
    /\ UNCHANGED <<store, input, output>>

\* run_inference raises or completes with a topic.
OwnInferenceReturns(r) ==
    /\ runs[r].pc = "summarize"
    /\ \E i \in 1..2 :
          runs' = [runs EXCEPT ![r] = AfterInference(@, InferenceOutcomes(Prompt(runs[r]))[i])]
    /\ UNCHANGED <<store, input, output>>

\* The one store answers the query of either invocation with all the
\* entries it holds, whoever wrote them, or raises.
SharedQueryReturns(r) ==
    /\ runs[r].pc = "query"
    /\ \E i \in {1, 3} :
          runs' = [runs EXCEPT ![r] = AfterQuery(@, QueryAnswers(store)[i])]
    /\ UNCHANGED <<store, input, output>>

ConcurrentStep(r) ==
    \/ RunCalledTwice(r)
    \/ OwnAgentReturns(r)
    \/ WriteReturns(r)
    \/ WriteFails(r)
    \/ OwnInferenceReturns(r)
    \/ SharedQueryReturns(r)

\* The steps of the two invocations, in any order.
NextConcurrent == \E r \in RunIds : ConcurrentStep(r)

SpecConcurrent == Init /\ [][NextConcurrent]_vars

\* Every external call that run awaits returns or fails in the end: the
\* agent's run, the store's write, the inference call and the store's
\* query.
ExternalCallsEnd ==
    /\ WF_vars(AgentReturns(1))
    /\ WF_vars(WriteReturns(1) \/ WriteFails(1))
    /\ WF_vars(InferenceReturns(1))
    /\ WF_vars(QueryReturns(1))

SpecFair == Init /\ [][Next]_vars /\ ExternalCallsEnd

\* ------------------------------------------- process_agent_response alone

\* The longest findings list of a response.
MaxLines == 2

\* The sequences over S of length n at most.
SeqsUpTo(S, n) == UNION {[1..k -> S] : k \in 0..n}

\* A key that the mapping does not have.
Absent == Node("absent", <<>>, 0, <<>>)

\* The mapping of the entries whose value is not Absent.
Mapping(entries) ==
    LET Present(e) == e.l[1] # Absent IN PyDict(SelectSeq(entries, Present))

\* The lines of a findings list: heading markers alone, a section heading,
\* a numbered heading, bullet points, a plain line, a blank line.
ResponseLines ==
    { <<"#">>, <<"#", "#", "#">>, SectionPrefix \o <<" ", "S">>, <<"1", ".", " ", "T">>,
      <<"-", " ", "p", " ", "q">>, <<"*", " ", "r">>, <<"p", "l", "a", "i", "n", " ", "q">>,
      <<" ">> }

FindingsValues ==
    {Absent, PyNone, PyInt(1), PyList(<<FindingDict(<<"S">>, << <<"p">> >>)>>),
     PyList(<<PyDict(<<Entry("content", PyStr(<<"c">>))>>)>>)}
    \cup {StrList(lines) : lines \in SeqsUpTo(ResponseLines, MaxLines)}

QuestionsValues == {Absent, StrList(<< <<"q", " ", "#", "?">>, <<" ">> >>), PyInt(1)}

MetadataValues == {Absent, PyDict(<<Entry("round", PyInt(2))>>), PyNone}

QuestionsToAnswerValues == {Absent, StrList(<< <<"q">>, <<"z">> >>)}

\* The raw responses: texts that are no JSON, JSON documents that are no
\* object, and objects with any combination of the optional keys.
RawResponses ==
    {PyStr(Garbage), PyStr(<<>>), PyStr(<<"t", BS>>)}
    \cup {PyJson(PyList(<<PyInt(1), PyInt(2)>>)), PyJson(PyInt(5)), PyJson(PyNone),
          PyJson(PyStr(<<"s">>))}
    \cup {PyJson(Mapping(<<Entry("findings", f), Entry("questions", q),
                           Entry("metadata", m), Entry("questions_to_answer", a)>>)) :
             f \in FindingsValues, q \in QuestionsValues, m \in MetadataValues,
             a \in QuestionsToAnswerValues}

InitParser ==
    /\ runs = [r \in RunIds |-> IdleFrame]
    /\ store = <<>>
    /\ input \in RawResponses
    /\ output = NotCalled

ParserCalled ==
    /\ ~Called
    /\ output' = ProcessAgentResponse(input)
    /\ UNCHANGED <<runs, store, input>>

NextParser == ParserCalled

SpecParser == InitParser /\ [][NextParser]_vars

\* -------------------------------------- summarize_questions_to_topic alone

\* The longest completion.
MaxCompletion == 2

CompletionChars == {"a", " ", "#", BS}

\* The content of a completion: a text, or nothing.
Contents ==
    {PyStr(text) : text \in SeqsUpTo(CompletionChars, MaxCompletion)} \cup {PyNone}

\* The response as an object with attributes.
ChatObject(content) ==
    Node("object", <<>>, 0,
         <<Entry("choices",
                 PyList(<<Node("object", <<>>, 0,
                               <<Entry("message",
                                       Node("object", <<>>, 0,
                                            <<Entry("content", content)>>))>>)>>))>>)

\* Responses of neither shape: no choices, an empty list of choices, a
\* choice without message, a message without content, no response.
Shapeless ==
    {EmptyDict,
     PyDict(<<Entry("choices", EmptyList)>>),
     PyDict(<<Entry("choices", PyList(<<EmptyDict>>))>>),
     PyDict(<<Entry("choices", PyList(<<PyDict(<<Entry("message", EmptyDict)>>)>>))>>),
     PyNone}

Responses ==
    {ChatResponse(c) : c \in Contents} \cup {ChatObject(c) : c \in Contents} \cup Shapeless

SummarizerTopics == {PyStr(<<"t", "o", "p", " ", "1">>), PyStr(<<"a">>)}

SummarizerQuestions == {<<>>, << <<"q", "?">> >>}

InitSummarizer ==
    /\ runs = [r \in RunIds |-> IdleFrame]
    /\ store = <<>>
    /\ \/ input \in {[questions |-> q, topic |-> t, inference |-> Ok(response)] :
                        q \in SummarizerQuestions, t \in SummarizerTopics,
                        response \in Responses}
       \/ input \in {[questions |-> q, topic |-> t, inference |-> Raise("InferenceError")] :
                        q \in SummarizerQuestions, t \in SummarizerTopics}
    /\ output = NotCalled

SummarizerCalled ==
    /\ ~Called
    /\ output' = Ok(SummarizeQuestionsToTopic(input.questions, input.topic, input.inference))
    /\ UNCHANGED <<runs, store, input>>

NextSummarizer == SummarizerCalled

SpecSummarizer == InitSummarizer /\ [][NextSummarizer]_vars

\* --------------------------------------------- get_relevant_context alone

\* The most entries that the store's answer lists.
MaxEntries == 2

\* A point that is MinPointLen characters long once trimmed.
PaddedPoint == <<" ">> \o [i \in 1..MinPointLen |-> "y"] \o <<" ", " ">>

\* Stored findings: one that passes the quality filter, one with short
\* points only, one with a single point, one whose section contains the
\* first one's, one whose longest point is at the threshold.
StoredGood == FindingDict(<<"s", "e", "c">>, <<LongPoint, <<"p">> >>)

StoredShort == FindingDict(<<"b", "r", "i", "e", "f">>, << <<"p">>, <<"q">> >>)

StoredSingle == FindingDict(<<"o", "n", "e">>, <<LongPoint>>)

StoredSimilar == FindingDict(<<"S", "e", "c", " ", "2">>, <<LongPoint, LongPoint>>)

StoredPadded == FindingDict(<<"p", "a", "d">>, <<PaddedPoint, <<"p">> >>)

\* A section that contains StoredGood's, and shares none with StoredSimilar's.
StoredThird == FindingDict(<<"s", "e", "c", " ", "3">>, <<LongPoint, <<"r">> >>)

\* StoredGood's section in capitals, with one point only.
StoredWeak == FindingDict(<<"S", "E", "C">>, <<LongPoint>>)

FindingLists ==
    { <<>>, <<StoredGood>>, <<StoredShort, StoredSingle>>, <<StoredGood, StoredSimilar>>,
      <<StoredPadded, StoredGood>>, <<StoredSimilar>>, <<StoredGood, StoredThird>>,
      <<StoredWeak, StoredGood>> }

QuestionLists ==
    { <<>>, << <<"q", "1", "?">>, <<"q", "1", "?">>, <<"q", " ", "#", "2">> >>,
      << <<"q", "1", "?">>, <<"q", "2", "?">>, <<"q", "3", "?">> >>,
      << <<"q", "1", "?">>, ChallengesQuestion >> }

\* An entry of the store's answer, or the aggregate mapping.
StoredEntries ==
    {PyDict(<<Entry("findings", PyList(fs)), Entry("questions", StrList(qs))>>) :
        fs \in FindingLists, qs \in QuestionLists}

\* The last result of the store's answer: a text that is no JSON, the
\* entries as a JSON document or (one entry fewer) as a list, one aggregate
\* mapping, three entries as a JSON document.
\* Entries without findings, one for each list of questions.
QuestionEntries == {e \in StoredEntries : Get(e, "findings", EmptyList) = EmptyList}

\* Answers of three entries, each with its questions.
ThreeRounds == {PyJson(PyList(es)) : es \in [1..3 -> QuestionEntries]}

LastResults ==
    {PyStr(Garbage)}
    \cup {PyJson(PyList(es)) : es \in SeqsUpTo(StoredEntries, MaxEntries)}
    \cup {PyList(es) : es \in SeqsUpTo(StoredEntries, MaxEntries - 1)}
    \cup StoredEntries
    \cup ThreeRounds

InitContext ==
    /\ runs = [r \in RunIds |-> IdleFrame]
    /\ store = <<>>
    /\ \/ input \in {Ok(result) : result \in LastResults}
       \/ input = Raise("StoreError")
    /\ output = NotCalled

ContextCalled ==
    /\ ~Called
    /\ output' = GetRelevantContext(input)
    /\ UNCHANGED <<runs, store, input>>

NextContext == ContextCalled

SpecContext == InitContext /\ [][NextContext]_vars

\* ------------------------------------------------------- clean_text alone

MaxText == 5

\* The characters of the texts: a letter, a space, a character the second
\* substitution removes, the backslash, the letter of the newline escape and
\* a letter outside ASCII.
TextChars == {"a", " ", "#", BS, "n", "ord_a"}

\* The arguments of clean_text: None and the strs of up to MaxText characters.
Texts == {PyNone} \cup {PyStr(s) : s \in SeqsUpTo(TextChars, MaxText)}

InitClean ==
    /\ runs = [r \in RunIds |-> IdleFrame]
    /\ store = <<>>
    /\ input \in Texts
    /\ output = NotCalled

\* clean_text(text)
CleanCalled ==
    /\ ~Called
    /\ output' = CleanText(input)
    /\ UNCHANGED <<runs, store, input>>

\* clean_text(clean_text(text)): the call on a str that clean_text returned,
\* of up to MaxText characters as the texts are.
CleanedAgain ==
    /\ Called
    /\ output.ok
    /\ Len(output.v) <= MaxText
    /\ output' = CleanText(PyStr(output.v))
    /\ UNCHANGED <<runs, store, input>>

NextClean == CleanCalled \/ CleanedAgain

SpecClean == InitClean /\ [][NextClean]_vars

\* ---------------------------------------------------- the line scanner alone

\* The most lines of a findings list that the scanner is given.
MaxScanned == 4

\* The lines: a heading marker alone, a section heading, a numbered
\* heading, bullet points, a bullet marker alone, a plain line, a blank
\* line.
ScannedLines ==
    { <<"#">>, SectionPrefix \o <<" ", "S">>, <<"1", ".", " ", "T">>,
      <<"-", " ", "p", " ", "q">>, <<"*", " ", "r">>, <<"-">>,
      <<"p", "l", "a", "i", "n", " ", "q">>, <<" ">> }

InitScanner ==
    /\ runs = [r \in RunIds |-> IdleFrame]
    /\ store = <<>>
    /\ input \in {StrList(lines) : lines \in SeqsUpTo(ScannedLines, MaxScanned)}
    /\ output = NotCalled

\* Lines 226-265 of process_agent_response: the loop over the lines and
\* the flush after it.
ScannerCalled ==
    /\ ~Called
    /\ output' = ScanLines(input.l, 1, <<>>, <<>>, <<>>)
    /\ UNCHANGED <<runs, store, input>>

NextScanner == ScannerCalled

SpecScanner == InitScanner /\ [][NextScanner]_vars

\* ------------------------------------------------ properties of the rounds

IsAgentCall(c) == \E k \in DOMAIN AgentNames : c.call = AgentNames[k]

IsWrite(c) == c.call = "add_data"

\* The entries of the store that run r wrote.
Written_by(r) == LET Own(e) == e.run_id = runs[r].run_id IN SelectSeq(store, Own)

\* C1: run never lets an exception escape.  Whatever raises in the body
\* (the topic's normalisation, an agent's run, a store write, the building
\* of the context or of the prompt) ends the run with a result of status
\* "error" whose message is the exception's; a run that is over has a
\* result of status "success" or "error".
RunNeverRaises ==
    \A r \in RunIds :
        /\ runs[r].pc = "done" => runs[r].result.status \in {"success", "error"}
        /\ runs[r].raised # "none" =>
              /\ runs[r].pc = "done"
              /\ runs[r].result.status = "error"
              /\ runs[r].result.message = runs[r].raised
        /\ \A c \in runs[r].failed :
              c.call # "inference" =>
                  /\ runs[r].pc = "done"
                  /\ runs[r].result.status = "error"
                  /\ runs[r].raised # "none"

\* A store write of round 2 raised after a parsed round 1: the run is over
\* with the error result.
RunNeverRaisesWitness ==
    /\ runs[1].raised = "StoreError"
    /\ Call("add_data", 2) \in runs[1].failed
    /\ runs[1].parsed[1].findings # <<>>
    /\ runs[1].result.status = "error"

\* C2: a result of status "success" comes from three completed rounds
\* (three agent calls, three writes, none failed), its findings and its
\* questions are the concatenation of what rounds 1, 2 and 3 parsed, in
\* that order, num_rounds is 3, run_id is the run's id, and final_topic is
\* the normalized topic that run was called with.
SuccessIsComplete ==
    \A r \in RunIds :
        runs[r].result.status = "success" =>
            /\ runs[r].pc = "done"
            /\ Len(runs[r].parsed) = 3
            /\ SelectSeq(runs[r].log, IsAgentCall)
                   = [k \in 1..3 |-> Call(AgentNames[k], k)]
            /\ SelectSeq(runs[r].log, IsWrite) = [k \in 1..3 |-> Call("add_data", k)]
            /\ \A c \in runs[r].failed : c.call = "inference"
            /\ runs[r].inflight = {}
            /\ [k \in 1..Len(Written_by(r)) |-> Written_by(r)[k].round] = <<1, 2, 3>>
            /\ runs[r].result.findings
                   = runs[r].parsed[1].findings \o runs[r].parsed[2].findings
                        \o runs[r].parsed[3].findings
            /\ runs[r].result.questions
                   = runs[r].parsed[1].questions \o runs[r].parsed[2].questions
                        \o runs[r].parsed[3].questions
            /\ runs[r].result.num_rounds = 3
            /\ runs[r].result.run_id = Uuid4(r)
            /\ runs[r].result.final_topic = CleanText(runs[r].topic).v

\* A successful run whose three rounds each parsed findings, whose topic
\* normalisation changed, and whose agents worked on a narrowed topic.
SuccessIsCompleteWitness ==
    /\ runs[1].result.status = "success"
    /\ \A k \in 1..3 : runs[1].parsed[k].findings # <<>> /\ runs[1].parsed[k].questions # <<>>
    /\ runs[1].result.final_topic # runs[1].topic.s
    /\ runs[1].summarised_topic # PyStr(runs[1].result.final_topic)

\* C3: the agents are called in the order researcher, analyst, synthesizer,
\* each at most once; the agent of round k+1 is called only after the call,
\* the parse and the write of round k are over; and a run never has two
\* external calls in flight.
Sequential ==
    \A r \in RunIds :
        /\ Cardinality(runs[r].inflight) <= 1
        /\ Len(SelectSeq(runs[r].log, IsAgentCall)) <= 3
        /\ \A k \in 1..Len(SelectSeq(runs[r].log, IsAgentCall)) :
              SelectSeq(runs[r].log, IsAgentCall)[k] = Call(AgentNames[k], k)
        /\ \A i \in 1..Len(runs[r].log) :
              IsAgentCall(runs[r].log[i]) /\ runs[r].log[i].round > 1 =>
                  /\ \E j \in 1..(i - 1) :
                        /\ runs[r].log[j] = Call("add_data", runs[r].log[i].round - 1)
                        /\ \E h \in 1..(j - 1) :
                              runs[r].log[h] = Call(AgentNames[runs[r].log[i].round - 1],
                                                    runs[r].log[i].round - 1)
                  /\ Len(runs[r].parsed) >= runs[r].log[i].round - 1
                  /\ \E e \in Range(Written_by(r)) : e.round = runs[r].log[i].round - 1

\* The synthesizer's call is in flight, after the other two agents' calls.
SequentialWitness ==
    /\ runs[1].inflight = {Call("synthesizer", 3)}
    /\ Len(runs[1].log) > 8

MalformedResponseRecovers ==
    \A r \in RunIds :
        /\ runs[r].pc = "done"
        /\ runs[r].failed = {}
        /\ Cardinality(runs[r].malformed) = 1
        /\ CleanText(runs[r].topic).ok
        => runs[r].result.status = "success"

\* ------------------------------------------- properties of the functions

\* C6: process_agent_response never raises: for every raw response it
\* returns a record with the keys findings, questions, metadata and
\* questions_to_answer.
ParserNeverRaises ==
    Called =>
        /\ output.ok
        /\ DOMAIN output.v = {"findings", "questions", "metadata", "questions_to_answer"}

\* Whether the completion cannot be had from what run_inference did, is
\* empty or absent, or is one that clean_text rejects.
Degraded(inference) ==
    \/ ~inference.ok
    \/ ~Completion(inference.v).ok
    \/ ~Truthy(Completion(inference.v).v)
    \/ ~CleanText(Completion(inference.v).v).ok

\* C7: summarize_questions_to_topic never raises, and returns the topic
\* argument itself whenever run_inference raises, the response has neither
\* shape, the completion is empty or absent, or its normalisation fails.
SummarizerPassesThrough ==
    Called => output.ok /\ (Degraded(input.inference) => output.v = input.topic)

\* C8: when the store's query raises, or its last result is a text that
\* cannot be decoded, get_relevant_context raises to its caller.
ContextPropagates ==
    Called /\ Undecodable(input) => ~output.ok

\* C9: every Context Bundle that get_relevant_context returns has at least
\* three previous_questions.
EnoughQuestions ==
    Called /\ output.ok /\ ~output.v.is_none => Len(output.v.previous_questions) >= 3

PointsOf(finding) == Get(finding, "points", EmptyList).l

\* C10: every finding of relevant_findings has at least 2 points, and a
\* point of more than 50 characters once trimmed.
SubstantiveFindings ==
    Called /\ output.ok =>
        \A i \in 1..Len(output.v.relevant_findings) :
            /\ Len(PointsOf(output.v.relevant_findings[i])) >= 2
            /\ \E j \in 1..Len(PointsOf(output.v.relevant_findings[i])) :
                  Len(Strip(PointsOf(output.v.relevant_findings[i])[j].s)) > 50

\* The store listed a finding with short points, one with a single point
\* and, in the next entry, one that passes and one whose longest point is
\* at the threshold: the bundle has the one that passes alone.
SubstantiveFindingsWitness ==
    /\ Called
    /\ input.ok
    /\ input.v.t = "json"
    /\ KbData(input.v).t = "list"
    /\ Len(KbData(input.v).l) = 2
    /\ Get(KbData(input.v).l[1], "findings", EmptyList).l = <<StoredShort, StoredSingle>>
    /\ Get(KbData(input.v).l[2], "findings", EmptyList).l = <<StoredPadded, StoredGood>>
    /\ output.v.relevant_findings = <<StoredGood>>

\* The findings that the store's answer lists, in the order of the answer.
Stored == IF input.ok /\ input.v.t # "str" THEN Findings(KbData(input.v)).v ELSE <<>>

SectionKey(finding) == Lower(Get(finding, "section", PyStr(<<>>)).s)

\* One section name is a substring of the other.
Contained(a, b) == IsSubstring(a, b) \/ IsSubstring(b, a)

PassesFilter(finding) ==
    /\ Len(PointsOf(finding)) >= 2
    /\ \E j \in 1..Len(PointsOf(finding)) : Len(Strip(PointsOf(finding)[j].s)) > 50

\* No two findings of relevant_findings have sections in containment.
NoContainment ==
    \A i, j \in 1..Len(output.v.relevant_findings) :
        i < j => ~Contained(SectionKey(output.v.relevant_findings[i]),
                            SectionKey(output.v.relevant_findings[j]))

\* The stored findings that pass the quality filter and have no earlier
\* stored finding that passes it with a section in containment.
FirstOfDuplicates ==
    LET Kept(j) ==
            /\ PassesFilter(Stored[j])
            /\ \A i \in 1..(j - 1) :
                  PassesFilter(Stored[i]) =>
                      ~Contained(SectionKey(Stored[i]), SectionKey(Stored[j]))
        kept == SelectSeq([j \in 1..Len(Stored) |-> j], Kept)
    IN [k \in 1..Len(kept) |-> Stored[kept[k]]]

\* C11 as stated: relevant_findings has no two findings with sections in
\* containment, and of stored findings that are duplicates of each other
\* the first in store order that passes the quality filter is the one
\* retained.
DedupKeepsFirst ==
    Called /\ output.ok /\ ~output.v.is_none =>
        /\ NoContainment
        /\ output.v.relevant_findings = FirstOfDuplicates

\* C11, amended: relevant_findings has no two findings with sections in
\* containment; each of its findings is a stored finding that passes the
\* quality filter; and every stored finding that passes the quality filter
\* has a retained finding, stored no later than it, with a section in
\* containment with its own (itself, if it is retained).
DedupAgainstRetained ==
    Called /\ output.ok /\ ~output.v.is_none =>
        /\ NoContainment
        /\ \A k \in 1..Len(output.v.relevant_findings) :
              \E i \in 1..Len(Stored) :
                  Stored[i] = output.v.relevant_findings[k] /\ PassesFilter(Stored[i])
        /\ \A j \in 1..Len(Stored) :
              PassesFilter(Stored[j]) =>
                  \E k \in 1..Len(output.v.relevant_findings) :
                      /\ Contained(SectionKey(output.v.relevant_findings[k]),
                                   SectionKey(Stored[j]))
                      /\ \E i \in 1..j : Stored[i] = output.v.relevant_findings[k]

\* The store lists "Sec 2", then "sec" and "sec 3": "sec" is dropped for
\* "Sec 2", and "sec 3", a duplicate of the dropped "sec" only, is retained.
DedupAgainstRetainedWitness ==
    /\ Called
    /\ Stored = <<StoredSimilar, StoredGood, StoredThird>>
    /\ output.v.relevant_findings = <<StoredSimilar, StoredThird>>

\* The response decoded, when it is a JSON document.
Decoded_response == IF input.t = "json" THEN input.l[1] ELSE EmptyDict

\* The response has a questions_to_answer list and findings that are flat
\* text lines.
FlatWithQuestions ==
    /\ Decoded_response.t = "dict"
    /\ Get(Decoded_response, "questions_to_answer", PyNone).t = "list"
    /\ Get(Decoded_response, "questions_to_answer", PyNone).l # <<>>
    /\ Get(Decoded_response, "findings", PyNone).t = "list"
    /\ AllOfType(Get(Decoded_response, "findings", PyNone).l, "str")

\* The line is a point of the question's synthetic section, both as the
\* response has them or as clean_text leaves them.
GroupedUnder(question, line) ==
    \E i \in 1..Len(output.v.findings) :
        /\ output.v.findings[i].section
              \in {FindingsForPrefix \o <<" ">> \o question,
                   CleanStr(FindingsForPrefix \o <<" ">> \o question).v}
        /\ \E j \in 1..Len(output.v.findings[i].points) :
              output.v.findings[i].points[j] \in {line, CleanStr(line).v}

\* C12: when the response has a questions_to_answer list and flat text
\* lines as findings, every line that overlaps a question (it contains the
\* question, or shares a word with it, case-insensitively) is a point of
\* the section "Findings for: <question>" of the parsed findings.
GroupsByQuestion ==
    Called /\ output.ok /\ FlatWithQuestions =>
        \A q \in Range(Get(Decoded_response, "questions_to_answer", PyNone).l) :
            \A line \in Range(Get(Decoded_response, "findings", PyNone).l) :
                Overlaps(q.s, line.s) => GroupedUnder(q.s, line.s)

\* C13: for a response that is a text and no JSON, process_agent_response
\* returns one finding, of section "Key Findings", whose one point is the
\* whole text as clean_text leaves it, no questions and empty metadata.
OpaqueTextIsOnePoint ==
    Called /\ input.t = "str" =>
        /\ output.ok
        /\ Len(output.v.findings) = 1
        /\ output.v.findings[1].section = KeyFindings
        /\ CleanText(input).ok
        /\ output.v.findings[1].points = <<CleanText(input).v>>
        /\ output.v.questions = <<>>
        /\ output.v.metadata = EmptyDict

\* C14: the prompt built for the analyst in round 2 contains the topic
\* that the summarizer made of round 1's questions, and the section and
\* every point of every finding that round 1 parsed and wrote to the store.
AnalystPromptHasRoundOne ==
    \A r \in RunIds :
        runs[r].round = 2 /\ runs[r].pc = "agent" =>
            /\ IsSubstring(TopicPrefix \o Format(runs[r].summarised_topic),
                           runs[r].agent_prompt)
            /\ \A i \in 1..Len(runs[r].parsed[1].findings) :
                  /\ IsSubstring(runs[r].parsed[1].findings[i].section, runs[r].agent_prompt)
                  /\ \A j \in 1..Len(runs[r].parsed[1].findings[i].points) :
                        IsSubstring(runs[r].parsed[1].findings[i].points[j],
                                    runs[r].agent_prompt)

\* C15: clean_text is idempotent: cleaning a text that clean_text returned
\* gives that text again.
CleanTextIdempotent == [][Called /\ output.ok => output' = output]_vars

\* C16: clean_text returns a string for every input, and the empty string
\* for an empty or absent one.
CleanTextTotal ==
    Called => /\ output.ok
              /\ ~Truthy(input) => output.v = <<>>

\* What the parser makes of the reply of an agent of invocation r.
Parsed_replies == [r \in RunIds |-> ProcessAgentResponse(OwnResponse(r)).v]

OwnParsed(r) == Parsed_replies[r]

\* The add_data calls of invocation r that have returned.
Writes_done(r) ==
    LET Done(c) == IsWrite(c) /\ c \notin runs[r].failed /\ c \notin runs[r].inflight
    IN SelectSeq(runs[r].log, Done)

\* The result, the narrowed topic and the aggregation lists of a frame.
Aggregated(f) == <<f.result, f.summarised_topic, f.all_findings, f.all_questions>>

\* The data of each invocation is its own: a successful result holds what
\* was parsed from the three replies of its own agents, and the entries
\* under its run_id are those it wrote, with its own replies' data.
OwnData ==
    \A r \in RunIds :
        /\ \A o \in RunIds \ {r} : runs[r].pc # "idle" /\ runs[o].pc # "idle"
                                       => runs[r].run_id # runs[o].run_id
        /\ runs[r].result.status = "success" =>
              /\ runs[r].result.run_id = runs[r].run_id
              /\ runs[r].result.findings
                     = OwnParsed(r).findings \o OwnParsed(r).findings \o OwnParsed(r).findings
              /\ runs[r].result.questions
                     = OwnParsed(r).questions \o OwnParsed(r).questions \o OwnParsed(r).questions
        /\ runs[r].pc # "idle" =>
              /\ Len(Written_by(r)) = Len(Writes_done(r))
              /\ \A i \in 1..Len(Written_by(r)) :
                    /\ Written_by(r)[i].round = Writes_done(r)[i].round
                    /\ Written_by(r)[i].findings = OwnParsed(r).findings
                    /\ Written_by(r)[i].questions = OwnParsed(r).questions

\* C17: two invocations of run at once, on one store and under any
\* interleaving of their steps, share no mutable state: the result of each
\* holds exactly what was parsed from its own agents' replies, each entry
\* in the store carries the run_id of the invocation that wrote it, and a
\* step of one invocation leaves the other's result, narrowed topic and
\* aggregation lists as they were.
RunsAreIsolated ==
    [][/\ OwnData'
       /\ \A r \in RunIds :
             (\E o \in RunIds \ {r} : runs'[o] # runs[o])
                 => Aggregated(runs'[r]) = Aggregated(runs[r])]_vars

\* Both invocations succeeded, their writes interleaved in the store, and
\* the second one's round 3 was given a context with the first one's
\* findings.
RunsAreIsolatedWitness ==
    /\ runs[1].result.status = "success"
    /\ runs[2].result.status = "success"
    /\ Len(store) = 6
    /\ [i \in 1..4 |-> store[i].run_id] = <<Uuid4(1), Uuid4(2), Uuid4(1), Uuid4(2)>>
    /\ FindingNode(OwnParsed(1).findings[1]) \in Range(runs[2].context.relevant_findings)

\* The topics the summarizer can return for the questions round k parsed.
NarrowedFrom(f, k) ==
    {SummarizeQuestionsToTopic(f.parsed[k].questions, PyStr(f.current_topic),
                               InferenceOutcomes(f.parsed[k].questions)[i]) :
        i \in DOMAIN InferenceOutcomes(f.parsed[k].questions)}

\* C18: the topic of round 2's query and prompt is the summarizer's output
\* for the questions of round 1, the topic of round 3's query and prompt is
\* the summarizer's output for the questions of round 2 alone, also when
\* round 2's parsing failed and left no questions, and a summarization
\* that fails yields the original topic.
TopicChain ==
    \A r \in RunIds :
        runs[r].round \in {2, 3} /\ runs[r].pc \in {"query", "agent"} =>
            /\ Call("inference", runs[r].round - 1) \in Range(runs[r].log)
            /\ runs[r].summarised_topic \in NarrowedFrom(runs[r], runs[r].round - 1)
            /\ Call("inference", runs[r].round - 1) \in runs[r].failed
                   => runs[r].summarised_topic = PyStr(runs[r].current_topic)
            /\ runs[r].pc = "agent"
                   => StartsWith(runs[r].agent_prompt,
                                 TopicPrefix \o Format(runs[r].summarised_topic))

IsQuery(c) == c.call = "query"

\* The add_data calls of round k among the calls i+1..j-1 of the log.
WritesBetween(log, i, j, k) == {m \in (i + 1)..(j - 1) : log[m] = Call("add_data", k)}

\* C19: an agent's call that returned is followed by one add_data call of
\* its round before any later query or agent call; the entries of a run
\* carry its run_id, the rounds 1, 2, 3 in this order and the types
\* research, analyst, synthesizer; a successful run made exactly three
\* writes and exactly two queries, those of rounds 2 and 3.
PersistenceProtocol ==
    \A r \in RunIds :
        /\ \A i \in DOMAIN runs[r].log :
              IsAgentCall(runs[r].log[i]) =>
                  /\ \A j \in (i + 1)..Len(runs[r].log) :
                        IsAgentCall(runs[r].log[j]) \/ IsQuery(runs[r].log[j]) =>
                            Cardinality(WritesBetween(runs[r].log, i, j, runs[r].log[i].round)) = 1
                  /\ Cardinality(WritesBetween(runs[r].log, i, Len(runs[r].log) + 1,
                                               runs[r].log[i].round)) <= 1
                  /\ runs[r].result.status = "success" =>
                        Call("add_data", runs[r].log[i].round) \in Range(runs[r].log)
        /\ \A k \in 1..Len(Written_by(r)) :
              /\ Written_by(r)[k].round = k
              /\ Written_by(r)[k].type = EntryTypes[k]
        /\ runs[r].pc # "idle" => Len(Written_by(r)) = Len(Writes_done(r))
        /\ runs[r].result.status = "success" =>
              /\ Len(Written_by(r)) = 3
              /\ Len(SelectSeq(runs[r].log, IsWrite)) = 3
              /\ SelectSeq(runs[r].log, IsQuery) = <<Call("query", 2), Call("query", 3)>>

\* A successful run whose second round had no JSON object to parse: it
\* made its three writes all the same, the second one of an empty record.
PersistenceProtocolWitness ==
    /\ runs[1].result.status = "success"
    /\ runs[1].malformed = {2}
    /\ Len(store) = 3
    /\ store[2].findings = <<>>
    /\ store[3].type = "synthesizer"

\* The calls whose failure ends the run: an agent's run, a store write.
IsFatal(c) == IsAgentCall(c) \/ IsWrite(c)

\* C20: once an agent's call or a store write of round k has failed, the
\* run makes no further agent call, query, write or inference (the failed
\* call stays the last of its log, nothing is awaited, the run is over with
\* an error result), and the store keeps the run's records of the rounds
\* before k as they were written.
FatalFailureAborts ==
    \A r \in RunIds :
        \A c \in runs[r].failed :
            IsFatal(c) =>
                /\ runs[r].log[Len(runs[r].log)] = c
                /\ runs[r].inflight = {}
                /\ runs[r].pc = "done"
                /\ runs[r].result.status = "error"
                /\ runs[r].round = c.round
                /\ Len(Written_by(r)) = c.round - 1
                /\ \A k \in 1..Len(Written_by(r)) :
                      /\ Written_by(r)[k].round = k
                      /\ Written_by(r)[k].findings = runs[r].parsed[k].findings
                      /\ Written_by(r)[k].questions = runs[r].parsed[k].questions

\* The first invocation's write of round 2 failed; the second invocation
\* has since written all its rounds, and the first one's record of round 1
\* is still the first entry of the store.
FatalFailureAbortsWitness ==
    /\ Call("add_data", 2) \in runs[1].failed
    /\ runs[2].result.status = "success"
    /\ Len(store) = 4
    /\ store[1].run_id = runs[1].run_id
    /\ store[4].run_id = runs[2].run_id
    /\ store[1].findings = runs[1].parsed[1].findings

\* C21: a failed store query is fatal to the run.  When the query of round
\* 2 or 3 raises, or its answer cannot be decoded, the agent of that round
\* is not called, nothing is called after the query, and the run is over
\* with status "error".
QueryFailureIsFatal ==
    \A r \in RunIds :
        \A c \in runs[r].failed :
            IsQuery(c) =>
                /\ c.round \in {2, 3}
                /\ runs[r].log[Len(runs[r].log)] = c
                /\ Call(AgentNames[c.round], c.round) \notin Range(runs[r].log)
                /\ runs[r].round = c.round
                /\ runs[r].inflight = {}
                /\ runs[r].pc = "done"
                /\ runs[r].result.status = "error"

\* The query of round 3 was answered with a text that is no JSON, after two
\* written rounds: the run ended on the prompt that could not be built.
QueryFailureIsFatalWitness ==
    /\ Call("query", 3) \in runs[1].failed
    /\ runs[1].raised = "UnboundLocalError"
    /\ Len(store) = 2
    /\ runs[1].result.status = "error"
    /\ ~runs[1].context.is_none

\* The store's answer of the call, decoded.
Answered == KbData(input.v)

\* The call returned a Context Bundle for an answer that decodes.
Bundled == Called /\ input.ok /\ input.v.t # "str" /\ output.ok /\ ~output.v.is_none

\* The texts of a list of str, each normalized.
CleanedSet(questions) == {CleanStr(questions.l[i].s).v : i \in 1..Len(questions.l)}

\* The bundle's questions are the given ones, normalized, and after them
\* generic questions at most.
PriorAre(bundle, questions) ==
    /\ Len(bundle.previous_questions) >= Cardinality(CleanedSet(questions))
    /\ Range(SubSeq(bundle.previous_questions, 1, Cardinality(CleanedSet(questions))))
           = CleanedSet(questions)
    /\ \A i \in (Cardinality(CleanedSet(questions)) + 1)..Len(bundle.previous_questions) :
          bundle.previous_questions[i] \in Range(GenericQuestions)

\* C22: for an answer that is a sequence of entries, the prior questions
\* are the questions of its second-to-last entry (none for fewer than two
\* entries, never those of the last entry alone); for one aggregate
\* mapping they are its questions.
SecondToLastQuestions ==
    Bundled =>
        IF Answered.t = "list"
        THEN IF Len(Answered.l) >= 2
             THEN PriorAre(output.v, Get(Answered.l[Len(Answered.l) - 1], "questions", EmptyList))
             ELSE PriorAre(output.v, EmptyList)
        ELSE PriorAre(output.v, Get(Answered, "questions", EmptyList))

\* An answer of three entries with three different lists of questions: the
\* bundle has the second one's.
SecondToLastQuestionsWitness ==
    /\ Bundled
    /\ Answered.t = "list"
    /\ Len(Answered.l) = 3
    /\ Get(Answered.l[1], "questions", EmptyList) = EmptyList
    /\ Get(Answered.l[2], "questions", EmptyList)
           = StrList(<< <<"q", "1", "?">>, <<"q", "2", "?">>, <<"q", "3", "?">> >>)
    /\ Get(Answered.l[3], "questions", EmptyList)
           = StrList(<< <<"q", "1", "?">>, <<"q", "1", "?">>, <<"q", " ", "#", "2">> >>)
    /\ <<"q", "2", "?">> \in Range(output.v.previous_questions)

\* The place of the first occurrence of x in xs.
FirstSeen(xs, x) == Min({i \in 1..Len(xs) : xs[i] = x})

\* C23: previous_questions of a Context Bundle has no question twice, also
\* after the generic questions were appended, and the prior questions
\* stand in the order they were first seen, ahead of any generic question
\* that was appended.
QuestionsAreUnique ==
    Bundled =>
        /\ \A i, j \in 1..Len(output.v.previous_questions) :
              i # j => output.v.previous_questions[i] # output.v.previous_questions[j]
        /\ \A i, j \in 1..Len(PriorQuestions(Answered).l) :
              FirstSeen(CleanAll(PriorQuestions(Answered).l).v,
                        CleanAll(PriorQuestions(Answered).l).v[i])
                < FirstSeen(CleanAll(PriorQuestions(Answered).l).v,
                            CleanAll(PriorQuestions(Answered).l).v[j])
              => FirstSeen(output.v.previous_questions,
                           CleanAll(PriorQuestions(Answered).l).v[i])
                   < FirstSeen(output.v.previous_questions,
                               CleanAll(PriorQuestions(Answered).l).v[j])

\* C24: every record process_agent_response returns, the one of the
\* opaque-text fallback included, has findings with a section that is not
\* empty and with at least one point, no point that is the empty string,
\* and no question that is the empty string.
RecordsAreWellFormed ==
    Called /\ output.ok =>
        /\ \A i \in 1..Len(output.v.findings) :
              /\ output.v.findings[i].section # <<>>
              /\ output.v.findings[i].points # <<>>
              /\ \A j \in 1..Len(output.v.findings[i].points) :
                    output.v.findings[i].points[j] # <<>>
        /\ \A i \in 1..Len(output.v.questions) : output.v.questions[i] # <<>>

\* The lines of the input that are not blank, stripped.
Scanned ==
    LET NotBlank(line) == Strip(line.s) # <<>>
        kept == SelectSeq(input.l, NotBlank)
    IN [i \in 1..Len(kept) |-> Strip(kept[i].s)]

IsBullet(line) == ~IsHeading(line) /\ line[1] \in {"-", "*"}

\* The lines that open a section: the headings, and the first line of all
\* that is neither a heading nor a bullet, if no heading comes before it.
Openers ==
    {i \in 1..Len(Scanned) :
        \/ IsHeading(Scanned[i])
        \/ ~IsBullet(Scanned[i]) /\ \A j \in 1..(i - 1) : IsBullet(Scanned[j])}

\* The k-th element of a set of numbers, in increasing order.
Nth(S, k) == CHOOSE x \in S : Cardinality({y \in S : y < x}) = k - 1

\* The line where the section opened at line h ends.
EndOf(h) == Min({i \in Openers : i > h} \cup {Len(Scanned) + 1}) - 1

\* The openers that are followed by a line of their own.
Emitted == {h \in Openers : EndOf(h) > h}

\* The heading of the section a line opens.
SectionText(line) == IF IsHeading(line) THEN Heading(StripPrefixes(line, 1)).v ELSE line

\* The point a line makes: a bullet's text without its marker, a plain
\* line as it is.
PointText(line) == IF IsBullet(line) THEN BulletPoint(line) ELSE line

\* C25: the scanner emits the sections in the order of their headings,
\* those that collected a point and no others; a section's points are the
\* lines between its heading and the next one, each bullet or plain line
\* one point, in line order, none lost; the first line that is neither
\* heading nor bullet, seen with no section open, is a heading.
ScannerKeepsLines ==
    Called /\ output.ok =>
        /\ Len(output.v) = Cardinality(Emitted)
        /\ \A k \in 1..Len(output.v) :
              /\ Get(output.v[k], "section", PyNone) = PyStr(SectionText(Scanned[Nth(Emitted, k)]))
              /\ Get(output.v[k], "points", PyNone)
                     = StrList([m \in 1..(EndOf(Nth(Emitted, k)) - Nth(Emitted, k)) |->
                                   PointText(Scanned[Nth(Emitted, k) + m])])

\* The points of the section opened at line h: the texts of its lines,
\* but for the bullets that are a marker and nothing else.
PointsOfSection(h) ==
    LET texts == [m \in 1..(EndOf(h) - h) |-> PointText(Scanned[h + m])]
        HasText(point) == point # <<>>
    IN SelectSeq(texts, HasText)

\* The openers whose section has a point.
EmittedWithText == {h \in Openers : PointsOfSection(h) # <<>>}

\* C25, amended: as ScannerKeepsLines, but a bullet that is a marker with
\* no text makes no point, and a section with such bullets only is not
\* emitted.
ScannerKeepsText ==
    Called /\ output.ok =>
        /\ Len(output.v) = Cardinality(EmittedWithText)
        /\ \A k \in 1..Len(output.v) :
              /\ Get(output.v[k], "section", PyNone)
                     = PyStr(SectionText(Scanned[Nth(EmittedWithText, k)]))
              /\ Get(output.v[k], "points", PyNone)
                     = StrList(PointsOfSection(Nth(EmittedWithText, k)))

\* Under a section heading a bullet, a bullet marker alone and a plain
\* line: the section has the bullet's text and the plain line, in this
\* order.
ScannerKeepsTextWitness ==
    /\ Called
    /\ output.ok
    /\ input = StrList(<< SectionPrefix \o <<" ", "S">>, <<"-", " ", "p", " ", "q">>,
                          <<"-">>, <<"p", "l", "a", "i", "n", " ", "q">> >>)
    /\ output.v = << FindingDict(<<"S">>, << <<"p", " ", "q">>,
                                            <<"p", "l", "a", "i", "n", " ", "q">> >>) >>

\* C26: the record of round 1 is not changed after its write.  Its
\* findings and questions lists, which are those of research_data handed
\* to add_data in kb_input, stay what round 1 parsed through all that the
\* run does afterwards, the aggregation of rounds 2 and 3 included.
RoundOneRecordKept ==
    \A r \in RunIds :
        Call("add_data", 1) \in Range(runs[r].log) =>
            /\ runs[r].research_data.findings = runs[r].parsed[1].findings
            /\ runs[r].research_data.questions = runs[r].parsed[1].questions

IsInference(c) == c.call = "inference"

\* The run made no call twice, and no more than three agent calls, three
\* writes, two queries and three inference calls.
CallsBounded ==
    \A r \in RunIds :
        /\ \A i, j \in DOMAIN runs[r].log : i # j => runs[r].log[i] # runs[r].log[j]
        /\ Len(SelectSeq(runs[r].log, IsAgentCall)) <= 3
        /\ Len(SelectSeq(runs[r].log, IsWrite)) <= 3
        /\ Len(SelectSeq(runs[r].log, IsQuery)) <= 2
        /\ Len(SelectSeq(runs[r].log, IsInference)) <= 3

\* C27: when every external call returns or fails in the end, a run that
\* was called returns a result of status "success" or "error"; it makes at
\* most three agent calls, three writes, two queries and three inference
\* calls, repeats none, and never goes back to an earlier round.
RunTerminates ==
    /\ []CallsBounded
    /\ [][\A r \in RunIds : runs'[r].round >= runs[r].round]_vars
    /\ \A r \in RunIds :
          (runs[r].pc # "idle")
              ~> (runs[r].pc = "done" /\ runs[r].result.status \in {"success", "error"})

\* A run that is over after all the calls it can make: three agent calls,
\* three writes, two queries and three inference calls.
RunTerminatesWitness ==
    /\ runs[1].pc = "done"
    /\ Len(runs[1].log) = 11
    /\ Len(SelectSeq(runs[1].log, IsInference)) = 3
    /\ runs[1].inflight = {}

\* C28: the Context Bundle built for a run holds findings and questions
\* of the records written under the run's own run_id only, also when
\* another run has written records on the same topic to the store.
ContextIsOwn ==
    \A r \in RunIds :
        ~runs[r].context.is_none =>
            /\ \A i \in 1..Len(runs[r].context.relevant_findings) :
                  \E k \in 1..Len(Written_by(r)) :
                      runs[r].context.relevant_findings[i]
                          \in Range(EntryNode(Written_by(r)[k]).l[3].l[1].l)
            /\ \A i \in 1..Len(runs[r].context.previous_questions) :
                  \/ runs[r].context.previous_questions[i] \in Range(GenericQuestions)
                  \/ \E k \in 1..Len(Written_by(r)) :
                        runs[r].context.previous_questions[i] \in Range(Written_by(r)[k].questions)

\* C29: the quality filter does not feed the duplicate check.  A stored
\* finding that passes the filter is retained when every earlier stored
\* finding with a section in containment with its own was rejected by the
\* filter.
RejectedIsNotSeen ==
    Called /\ output.ok /\ ~output.v.is_none =>
        \A j \in 1..Len(Stored) :
            /\ PassesFilter(Stored[j])
            /\ \A i \in 1..(j - 1) :
                  Contained(SectionKey(Stored[i]), SectionKey(Stored[j]))
                      => ~PassesFilter(Stored[i])
            => Stored[j] \in Range(output.v.relevant_findings)

\* A finding with one point and, stored after it, a finding of the same
\* section (but for the case) that passes the filter: the second one is
\* retained.
RejectedIsNotSeenWitness ==
    /\ Called
    /\ output.ok
    /\ ~output.v.is_none
    /\ Len(Stored) >= 2
    /\ Stored[1] = StoredWeak
    /\ Stored[2] = StoredGood
    /\ output.v.relevant_findings[1] = StoredGood

\* The store answers the query of the round that run r is in with the
\* entries that r wrote, in write order, and the round's agent is called.
AnsweredInWriteOrder(r) ==
    /\ runs[r].pc = "query"
    /\ runs'[r] = AfterQuery(runs[r], Ok(PyJson(PyList(EntryNodes(Written_by(r))))))
    /\ runs'[r].pc = "agent"

\* C30: when the store answers a query with the run's records in write
\* order, the analyst of round 2 (one stored record) gets the three generic
\* questions only as previous_questions, and the synthesizer of round 3 (two
\* stored records) gets the questions of round 1's record, with generic
\* ones after them at most, and none that only round 2's record has.
PreviousQuestionsByRound ==
    [][\A r \in RunIds :
          AnsweredInWriteOrder(r) =>
              /\ runs[r].round = 2 /\ Len(Written_by(r)) = 1
                    => runs'[r].context.previous_questions = GenericQuestions
              /\ runs[r].round = 3 /\ Len(Written_by(r)) = 2
                    => /\ PriorAre(runs'[r].context, StrList(Written_by(r)[1].questions))
                       /\ \A i \in 1..Len(Written_by(r)[2].questions) :
                             Written_by(r)[2].questions[i]
                                 \in Range(runs'[r].context.previous_questions)
                             => Written_by(r)[2].questions[i]
                                    \in Range(Written_by(r)[1].questions)]_vars

\* The synthesizer has been called in a run whose first record has the
\* question of reply 'a' and whose second record the question of reply 'm':
\* its context has the first one, then the generic ones, and not the second.
PreviousQuestionsByRoundWitness ==
    /\ runs[1].round = 3
    /\ runs[1].pc = "agent"
    /\ Len(Written_by(1)) = 2
    /\ Written_by(1)[1].questions = << <<"q", "a", "?">> >>
    /\ Written_by(1)[2].questions = << <<"q", "m", "?">> >>
    /\ runs[1].context.previous_questions = << <<"q", "a", "?">> >> \o GenericQuestions

====
